---------------------------- MODULE Spec2Model ----------------------------
(***************************************************************************)
(* Model of the transcript endpoint of TranscriptGrab (api/transcript.js). *)
(*                                                                         *)
(* Two revisions of the endpoint share one handler and differ in the       *)
(* caption strategies behind tryYouTubeCaptions:                           *)
(*   "extractor"  src/api/transcript.js   (youtube-caption-extractor)      *)
(*   "innertube"  src/unnamed/part_012    (get_transcript, Innertube       *)
(*                                         player, page scrape)            *)
(* Both fall back to AssemblyAI speech-to-text.                            *)
(*                                                                         *)
(* Times are integer milliseconds; the code holds seconds as floats.       *)
(* A text is a sequence of one-character strings.                          *)
(***************************************************************************)
EXTENDS Integers, Sequences, FiniteSets, TLC

VARIABLES
  rev,            \* which revision of api/transcript.js is deployed
  ASSEMBLYAI_KEY, \* TRUE iff process.env.ASSEMBLYAI_API_KEY is set
  stripe,         \* TRUE iff the Stripe client was constructed
  req,            \* the request being handled
  pc,             \* position of the handler
  rateMap,        \* IP -> { count, resetAt }
  now,            \* Date.now()
  attempts,       \* strategy attempts of this request, in order
  lastOutcome,    \* outcome returned by the most recent strategy call
  calls,          \* upstream calls made for this request, per service
  response,       \* the HTTP response sent
  responses,      \* number of HTTP responses sent
  transcriptId,   \* submitData.id of the AssemblyAI job
  startTime,      \* Date.now() when polling began
  lastPoll,       \* pollData.status of the most recent poll
  awaiting,       \* the await the request is waiting in, inside position pc
  parsed,         \* tryGetTranscript: its segments while it awaits the title
  fetchMs,        \* how long each upstream takes to settle a fetch
  window,         \* history: per key, the rate-limit window it is in
  verdict,        \* history: per key, the answer to its latest call
  words,          \* input of groupWordsIntoSegments
  fullText,       \* input of groupWordsIntoSegments
  segments,       \* groupWordsIntoSegments: the segments pushed so far
  currentSeg,     \* groupWordsIntoSegments: the running segment
  wordIndex,      \* groupWordsIntoSegments: the word the loop is at
  captionTracks,  \* the captionTracks list of a player response or watch page
  track,          \* the track each strategy selected from captionTracks
  SUPADATA_KEY,   \* TRUE iff process.env.SUPADATA_API_KEY is set
  supadataCalls,  \* requests sent to the aggregator for this request
  users,          \* the row of table users of the one user there is
  single_credits, \* the row of table single_credits of the one token
  processed_checkouts, \* stripe_session_id values of processed_checkouts
  checkout,       \* the Stripe checkout session
  pay,            \* position of each webhook / link-stripe invocation
  gen,            \* position and locals of each generate invocation
  granted,        \* history: setProStatus / incrementCredits calls made
  post,           \* the row of post_status of the one scheduled post
  exec,           \* position and locals of each execute invocation
  published,      \* history: posts accepted by the social platform
  QSTASH_SIGNING_KEY, \* whether process.env.QSTASH_SIGNING_KEY is set
  scheduling,     \* the request that created the post has yet to confirm it
  sessions,       \* the row of table sessions of the one token issued
  clock,          \* NOW() of the database, in days
  sessLog,        \* history: logouts completed, the last session lookup
  sess,           \* positions of the session lookup and of the two cleanups
  channel,        \* the linked channel: its row and its videos page
  cron,           \* position and locals of the run of the channel cron
  attempted,      \* history: videos the run under way has attempted
  channelReq      \* the request to /api/channel under way

vars == <<rev, ASSEMBLYAI_KEY, stripe, req, pc, rateMap, now, attempts,
          lastOutcome, calls, response, responses, transcriptId, startTime,
          lastPoll, awaiting, parsed, fetchMs, window, verdict, words,
          fullText, segments, currentSeg, wordIndex, captionTracks, track,
          SUPADATA_KEY, supadataCalls, users, single_credits,
          processed_checkouts, checkout, pay, gen, granted, post, exec,
          published, QSTASH_SIGNING_KEY, scheduling, sessions, clock, sessLog,
          sess, channel, cron, attempted, channelReq>>

\* what a deployment and a request are given
inputVars == <<rev, ASSEMBLYAI_KEY, stripe, req, fetchMs>>
handlerVars == <<inputVars, attempts, lastOutcome, calls, response, responses,
                 transcriptId, startTime, lastPoll, awaiting, parsed>>
historyVars == <<window, verdict>>
wordVars == <<words, fullText, segments, currentSeg, wordIndex>>
trackVars == <<captionTracks, track>>

\* the variables that only the specifications of single functions use
aggVars == <<SUPADATA_KEY, supadataCalls>>
dbVars == <<users, single_credits, processed_checkouts>>
payVars == <<checkout, pay, granted>>
execVars == <<post, exec, published, QSTASH_SIGNING_KEY, scheduling>>
sessVars == <<sessions, clock, sessLog, sess>>
cronVars == <<channel, cron, attempted, channelReq>>
lateVars == <<execVars, sessVars, cronVars>>
extraVars == <<trackVars, aggVars, dbVars, payVars, gen, lateVars>>

-----------------------------------------------------------------------------
(* Texts *)

Space == " "

\* the code points String.prototype.trim strips: WhiteSpace (TAB, VT, FF, SP,
\* NBSP, ZWNBSP and category Zs) and LineTerminator (LF, CR, LS, PS). VT
\* (U+000B) and NBSP (U+00A0) stand in their literals as themselves; a code
\* point above U+00FF is written by its name
WhiteSpace ==
  {"\t", "\n", "", "\f", "\r", Space, " ", "U+1680", "U+2000",
   "U+2001", "U+2002", "U+2003", "U+2004", "U+2005", "U+2006", "U+2007",
   "U+2008", "U+2009", "U+200A", "U+2028", "U+2029", "U+202F", "U+205F",
   "U+3000", "U+FEFF"}

RECURSIVE TrimStart(_)
TrimStart(s) ==
  IF s # <<>> /\ Head(s) \in WhiteSpace THEN TrimStart(Tail(s)) ELSE s

RECURSIVE TrimEnd(_)
TrimEnd(s) ==
  IF s # <<>> /\ s[Len(s)] \in WhiteSpace
  THEN TrimEnd(SubSeq(s, 1, Len(s) - 1))
  ELSE s

\* String.prototype.trim
Trim(s) == TrimEnd(TrimStart(s))

\* String.prototype.endsWith, for a one-character suffix
endsWith(s, ch) == s # <<>> /\ s[Len(s)] = ch

\* a JavaScript string is truthy iff it is not empty
Truthy(s) == s # <<>>

\* x.f || 0 for an optional numeric field f
FieldOr0(x, f) == IF f \in DOMAIN x THEN x[f] ELSE 0

\* x.text || '' for an optional text field
TextOf(x) == IF "text" \in DOMAIN x THEN x.text ELSE <<>>

-----------------------------------------------------------------------------
(* In-memory rate limiter *)

RATE_LIMIT == 10
RATE_WINDOW == 60000

IPs == {"ip1", "ip2"}

\* windows of time the clock can run through
MaxWindows == 2
\* calls past the limit a key makes within one window
MaxOver == 2

\* the instants at which Date.now() is read: each window boundary and 1 ms later
TimePoints ==
  UNION {{i * RATE_WINDOW, i * RATE_WINDOW + 1} : i \in 0..MaxWindows}

\* isRateLimited opens a new entry when there is none or the old one is over
EntryIsOver(entry, t) == t > entry.resetAt

\* faulty variant of OverLimit: the N-th call is rejected already
OverLimitFromN(count) == count >= RATE_LIMIT

\* entry.count > RATE_LIMIT
OverLimit(count) == count > RATE_LIMIT

\* rateMap after isRateLimited(ip) at time t
rateMapAfter(map, t, ip) ==
  IF ip \notin DOMAIN map \/ EntryIsOver(map[ip], t)
  THEN [k \in DOMAIN map \cup {ip} |->
          IF k = ip THEN [count |-> 1, resetAt |-> t + RATE_WINDOW]
          ELSE map[k]]
  ELSE [map EXCEPT ![ip].count = @ + 1]

\* the value isRateLimited(ip) returns at time t
isRateLimited(map, t, ip) ==
  IF ip \notin DOMAIN map \/ EntryIsOver(map[ip], t)
  THEN FALSE
  ELSE OverLimit(map[ip].count + 1)

\* setInterval callback: drop the entries whose window is over
Cleaned(map, t) ==
  [k \in {i \in DOMAIN map : ~(t > map[i].resetAt)} |-> map[k]]

\* history of one key: when its current window opened, how many calls it made
\* in it, how many windows it has opened
NoWindow == [open |-> -1, n |-> 0, opened |-> 0]

WindowAfter(w, t) ==
  IF w = NoWindow \/ t > w.open + RATE_WINDOW
  THEN [open |-> t, n |-> 1, opened |-> w.opened + 1]
  ELSE [w EXCEPT !.n = @ + 1]

-----------------------------------------------------------------------------
(* Strategy outcomes: { success, data?, error?, transcriptId? } *)

\* JSON null, and a field that is not there
Null == "null"
Absent == ""

Failure(err) ==
  [threw |-> FALSE, success |-> FALSE, error |-> err, segments |-> <<>>,
   totalSegments |-> 0, transcriptId |-> Absent]

Success(segs) ==
  [threw |-> FALSE, success |-> TRUE, error |-> Absent, segments |-> segs,
   totalSegments |-> Len(segs), transcriptId |-> Absent]

\* an exception that leaves the function it was raised in
Thrown(err) ==
  [threw |-> TRUE, success |-> FALSE, error |-> err, segments |-> <<>>,
   totalSegments |-> 0, transcriptId |-> Absent]

\* faulty variant of Caught: the strategy has no try/catch
Uncaught(err) == Thrown(err)

\* catch (err) { return { success: false, error: `...: ${err.message}` } }
Caught(err) == Failure(err)

-----------------------------------------------------------------------------
(* Caption strategies *)

\* cues an upstream may answer with: start and duration in ms (optional), text
\* (optional)
RawCues ==
  { [start |-> 1500, dur |-> 1000, text |-> <<"a">>],
    [start |-> 0, dur |-> 0, text |-> <<"\n", "a", Space>>],
    [start |-> 0, dur |-> 1000, text |-> <<Space, "\n">>],
    [start |-> 0, dur |-> 1000],
    [text |-> <<"a">>],
    [start |-> -500, dur |-> -200, text |-> <<"a">>] }

\* cues in one upstream answer
MaxCues == 2

CueLists == UNION {[1..n -> RawCues] : n \in 0..MaxCues}

\* details.subtitles.filter(s => s.text && s.text.trim()).map(...)
ExtractorSegments(subtitles) ==
  LET kept == SelectSeq(subtitles,
                        LAMBDA s : Truthy(TextOf(s)) /\ Truthy(Trim(TextOf(s))))
  IN  [i \in 1..Len(kept) |->
         [start |-> FieldOr0(kept[i], "start"),
          duration |-> FieldOr0(kept[i], "dur"),
          text |-> Trim(kept[i].text)]]

\* the cue loop of tryGetTranscript
CueSegments(cues) ==
  LET kept == SelectSeq(cues, LAMBDA c : Truthy(Trim(TextOf(c))))
  IN  [i \in 1..Len(kept) |->
         [start |-> FieldOr0(kept[i], "start"),
          duration |-> FieldOr0(kept[i], "dur"),
          text |-> Trim(TextOf(kept[i]))]]

\* an event's segs joined: a cue without text is an event without segs
parseJson3Events(events) ==
  LET kept == SelectSeq(events, LAMBDA e : "text" \in DOMAIN e)
      mapped == [i \in 1..Len(kept) |->
                   [start |-> FieldOr0(kept[i], "start"),
                    duration |-> FieldOr0(kept[i], "dur"),
                    text |-> Trim(kept[i].text)]]
  IN  SelectSeq(mapped, LAMBDA s : Len(s.text) > 0)

\* a caption track: { languageCode, kind?, baseUrl }; kind is 'asr' on an
\* auto-generated track and is not there on a manually created one
TrackKinds == {Absent, "asr", "forced"}

Languages == {"en", "fr"}

Tracks == [languageCode : Languages, kind : TrackKinds]

\* tracks in one captionTracks list
MaxTracks == 3

TrackLists == UNION {[1..n -> Tracks] : n \in 1..MaxTracks}

\* Array.prototype.find over the positions that satisfy the test: the first
\* of them, 0 for undefined
FirstOf(positions) ==
  IF positions = {} THEN 0
  ELSE CHOOSE i \in positions : \A j \in positions : i <= j

\* let track = find(...); if (!track) track = find(...);
\* if (!track) track = captionTracks[0]: the position of the track taken
FirstFound(first, second) ==
  IF first # 0 THEN first
  ELSE IF second # 0 THEN second
  ELSE 1

\* let track: not assigned yet, per strategy
NoTrack == [innertube |-> 0, scrape |-> 0]

\* no track list is being looked at
TrackIdle ==
  /\ captionTracks = <<>>
  /\ track = NoTrack

\* tryInnertubeCaption: t.languageCode === 'en' && t.kind !== 'asr'
InnertubeTrack(tracks) ==
  FirstFound(
    FirstOf({i \in DOMAIN tracks :
               tracks[i].languageCode = "en" /\ tracks[i].kind # "asr"}),
    FirstOf({i \in DOMAIN tracks : tracks[i].languageCode = "en"}))

\* tryScrapeCaption: t.languageCode === 'en' && !t.kind
ScrapeTrack(tracks) ==
  FirstFound(
    FirstOf({i \in DOMAIN tracks :
               tracks[i].languageCode = "en" /\ tracks[i].kind = Absent}),
    FirstOf({i \in DOMAIN tracks : tracks[i].languageCode = "en"}))

\* how an awaited fetch(...) settles: it rejects, or it resolves with a status
\* that is not ok, or with one that is
FetchAnswers == {"network_error", "http_error", "ok"}

\* what an upstream let the strategy see so far: kind says where it stopped
\* being good, cues are the cues of a good body
Answer(kind) == [kind |-> kind, cues |-> <<>>]

\* await getVideoDetails(...): it throws, it returns no subtitles, or cues
ExtractorAnswers ==
  {Answer("network_error"), Answer("no_data")}
    \cup {[kind |-> "ok", cues |-> c] : c \in CueLists}

\* await response.json() of get_transcript: it rejects, the body has no
\* actions, or it has cue groups
TranscriptBodies ==
  {Answer("malformed"), Answer("no_data")}
    \cup {[kind |-> "ok", cues |-> c] : c \in CueLists}

\* await response.json() of the player, await videoPageRes.text() of the watch
\* page: it rejects, there are no captionTracks, or there are
TrackListBodies == {"malformed", "no_data", "ok"}

\* await captionRes.json(): it rejects, or the json3 events
CaptionBodies ==
  {Answer("caption_malformed")}
    \cup {[kind |-> "ok", cues |-> c] : c \in CueLists}

tryCaptionExtractor(u) ==
  CASE u.kind = "network_error" -> Caught("Extractor error")
    [] u.kind = "no_data" \/ u.cues = <<>> ->
         Failure("No captions returned by extractor")
    [] OTHER ->
         LET segs == ExtractorSegments(u.cues)
         IN  IF segs = <<>> THEN Failure("Extractor returned empty captions")
             ELSE Success(segs)

tryGetTranscript(u) ==
  CASE u.kind \in {"network_error", "malformed"} -> Caught("get_transcript error")
    [] u.kind = "http_error" -> Failure("get_transcript HTTP")
    [] u.kind = "no_data" -> Failure("No actions in get_transcript response")
    [] u.cues = <<>> -> Failure("No cue groups found in transcript response")
    [] OTHER ->
         LET segs == CueSegments(u.cues)
         IN  IF segs = <<>> THEN Failure("Transcript cues were empty")
             ELSE Success(segs)

\* the kinds of answer that end in the catch of a strategy with two fetches:
\* a fetch that rejects and a body that cannot be read, of either request
Throws(u) ==
  u.kind \in {"network_error", "malformed", "caption_network_error",
              "caption_malformed"}

tryInnertubeCaption(u) ==
  CASE Throws(u) -> Caught("Innertube error")
    [] u.kind = "http_error" -> Failure("Innertube HTTP")
    [] u.kind = "no_data" -> Failure("No caption tracks in Innertube response")
    [] u.kind = "caption_http_error" -> Failure("Innertube caption fetch failed")
    [] OTHER ->
         LET segs == parseJson3Events(u.cues)
         IN  IF segs = <<>> THEN Failure("Innertube captions empty")
             ELSE Success(segs)

tryScrapeCaption(u) ==
  CASE Throws(u) -> Caught("Scrape error")
    [] u.kind = "http_error" -> Failure("Watch page HTTP")
    [] u.kind = "no_data" -> Failure("No caption tracks in page HTML")
    [] u.kind = "caption_http_error" -> Failure("Scrape caption fetch failed")
    [] OTHER ->
         LET segs == parseJson3Events(u.cues)
         IN  IF segs = <<>> THEN Failure("Scraped captions empty")
             ELSE Success(segs)

\* the caption strategies tryYouTubeCaptions runs, in its order
CaptionStrategies(r) ==
  IF r = "extractor" THEN <<"extractor">>
  ELSE <<"get_transcript", "innertube", "scrape">>

\* the whole chain of a revision
StrategyOrder(r) == CaptionStrategies(r) \o <<"assemblyai">>

\* the strategies that fetch a track list and then the captions of one track
TrackStrategies == {"innertube", "scrape"}

Try(strategy, u) ==
  CASE strategy = "extractor" -> tryCaptionExtractor(u)
    [] strategy = "get_transcript" -> tryGetTranscript(u)
    [] strategy = "innertube" -> tryInnertubeCaption(u)
    [] OTHER -> tryScrapeCaption(u)

\* the first await of a caption strategy
FirstAwait(strategy) ==
  IF strategy = "extractor" THEN "getVideoDetails" ELSE "fetch"

\* faulty variant of ReturnsEarly: the chain goes on after a success
ReturnsNever(o) == FALSE

\* if (result.success) return result;
ReturnsEarly(o) == o.success

-----------------------------------------------------------------------------
(* Speech-to-text fallback *)

MaxSegmentWords == 18
PauseMs == 1500
maxWaitMs == 110000
pollIntervalMs == 3000

\* JavaScript numbers are IEEE 754 doubles. A double is held exactly, as
\* (-1)^neg * man * 2^exp with man below 2^53; man is a natural number written
\* in digits of 15 bits, lowest digit first
Base == 2^15

RECURSIVE Big(_)
Big(n) == IF n = 0 THEN <<>> ELSE <<n % Base>> \o Big(n \div Base)

RECURSIVE BigValue(_)
BigValue(x) == IF x = <<>> THEN 0 ELSE Head(x) + Base * BigValue(Tail(x))

\* x without its leading zero digits
RECURSIVE BigTrim(_)
BigTrim(x) ==
  IF x # <<>> /\ x[Len(x)] = 0 THEN BigTrim(SubSeq(x, 1, Len(x) - 1)) ELSE x

\* x * c + carry, for c up to Base
RECURSIVE BigTimes(_, _, _)
BigTimes(x, c, carry) ==
  IF x = <<>> THEN Big(carry)
  ELSE LET t == Head(x) * c + carry
       IN  <<t % Base>> \o BigTimes(Tail(x), c, t \div Base)

\* x + y + carry
RECURSIVE BigPlus(_, _, _)
BigPlus(x, y, carry) ==
  IF x = <<>> /\ y = <<>> THEN Big(carry)
  ELSE LET t == (IF x = <<>> THEN 0 ELSE Head(x))
                  + (IF y = <<>> THEN 0 ELSE Head(y)) + carry
       IN  <<t % Base>> \o BigPlus(IF x = <<>> THEN x ELSE Tail(x),
                                   IF y = <<>> THEN y ELSE Tail(y),
                                   t \div Base)

\* x - y - borrow, for x >= y + borrow
RECURSIVE BigMinus(_, _, _)
BigMinus(x, y, borrow) ==
  IF x = <<>> THEN <<>>
  ELSE LET t == Head(x) - (IF y = <<>> THEN 0 ELSE Head(y)) - borrow
       IN  <<IF t < 0 THEN t + Base ELSE t>>
             \o BigMinus(Tail(x), IF y = <<>> THEN y ELSE Tail(y),
                         IF t < 0 THEN 1 ELSE 0)

\* x < y, for x and y without leading zero digits
RECURSIVE BigLess(_, _)
BigLess(x, y) ==
  IF Len(x) # Len(y) THEN Len(x) < Len(y)
  ELSE IF x = <<>> THEN FALSE
  ELSE IF x[Len(x)] # y[Len(y)] THEN x[Len(x)] < y[Len(y)]
  ELSE BigLess(SubSeq(x, 1, Len(x) - 1), SubSeq(y, 1, Len(y) - 1))

\* quotient and remainder of x by d, for d up to Base
RECURSIVE BigDiv(_, _)
BigDiv(x, d) ==
  IF x = <<>> THEN [q |-> <<>>, r |-> 0]
  ELSE LET high == BigDiv(Tail(x), d)
           t == high.r * Base + Head(x)
       IN  [q |-> <<t \div d>> \o high.q, r |-> t % d]

\* x * 2^k
ShiftLeft(x, k) == [i \in 1..(k \div 15) |-> 0] \o BigTimes(x, 2^(k % 15), 0)

\* floor(x / 2^k), and whether bits were lost
ShiftRight(x, k) ==
  LET d == k \div 15
      low == IF d >= Len(x) THEN x ELSE SubSeq(x, 1, d)
      rest == IF d >= Len(x) THEN <<>> ELSE SubSeq(x, d + 1, Len(x))
      div == BigDiv(rest, 2^(k % 15))
  IN  [q |-> BigTrim(div.q),
       inexact |-> div.r # 0 \/ \E i \in DOMAIN low : low[i] # 0]

RECURSIVE Bits(_)
Bits(n) == IF n = 0 THEN 0 ELSE 1 + Bits(n \div 2)

\* number of bits of x
BitLength(x) ==
  LET t == BigTrim(x)
  IN  IF t = <<>> THEN 0 ELSE 15 * (Len(t) - 1) + Bits(t[Len(t)])

\* the double nearest to (-1)^neg * (x + f) * 2^e, where 0 <= f < 1 and f > 0
\* iff inexact: round to nearest, ties to even
ToDouble(neg, x, e, inexact) ==
  LET k == BitLength(x) - 53
  IN  IF k <= 0 THEN [neg |-> neg, man |-> BigTrim(x), exp |-> e]
      ELSE LET y == ShiftRight(x, k - 1)
               half == BigDiv(y.q, 2)
               q == BigTrim(half.q)
               odd == q # <<>> /\ q[1] % 2 = 1
               up == half.r = 1 /\ (y.inexact \/ inexact \/ odd)
           IN  [neg |-> neg,
                man |-> IF up THEN BigPlus(q, <<>>, 1) ELSE q,
                exp |-> e + k]

\* ms / 1000 for an integer ms
Over1000(ms) ==
  IF ms = 0 THEN [neg |-> FALSE, man |-> <<>>, exp |-> 0]
  ELSE LET d == BigDiv(ShiftLeft(Big(IF ms < 0 THEN -ms ELSE ms), 64), 1000)
       IN  ToDouble(ms < 0, d.q, -64, d.r # 0)

\* b - a
Minus(b, a) ==
  LET e == IF a.exp < b.exp THEN a.exp ELSE b.exp
      x == BigTrim(ShiftLeft(a.man, a.exp - e))
      y == BigTrim(ShiftLeft(b.man, b.exp - e))
  IN  IF a.neg # b.neg THEN ToDouble(b.neg, BigPlus(y, x, 0), e, FALSE)
      ELSE IF BigLess(y, x) THEN ToDouble(~b.neg, BigMinus(x, y, 0), e, FALSE)
      ELSE ToDouble(b.neg, BigMinus(y, x, 0), e, FALSE)

\* x * 100
Times100(x) == ToDouble(x.neg, BigTimes(x.man, 100, 0), x.exp, FALSE)

\* Math.round(x): floor(x + 0.5), computed exactly
MathRound(x) ==
  IF BigTrim(x.man) = <<>> THEN 0
  ELSE IF x.exp >= 0
  THEN (IF x.neg THEN -1 ELSE 1) * BigValue(ShiftLeft(x.man, x.exp))
  ELSE LET y == ShiftRight(x.man, -x.exp - 1)
           twice == BigValue(y.q)
       IN  IF ~x.neg THEN (twice + 1) \div 2
           ELSE IF y.inexact THEN -((twice + 1) \div 2)
           ELSE -(twice \div 2)

\* Math.round(x * 100) / 100 of a time x = ms / 1000, here in ms
RoundCs(ms) == 10 * MathRound(Times100(Over1000(ms)))

\* Math.round(((lastEnd / 1000) - start) * 100) / 100 for start = ms / 1000,
\* here in ms
RoundCsBetween(ms, lastEnd) ==
  10 * MathRound(Times100(Minus(Over1000(lastEnd), Over1000(ms))))

\* let currentSeg = null
NoSeg == [none |-> TRUE]

\* segments.push({ start, duration, text }) of the running segment
ClosedSeg(cur) ==
  [start |-> RoundCs(cur.start),
   duration |-> RoundCsBetween(cur.start, cur.lastEnd),
   text |-> cur.text]

TerminalPunctuation == {".", "?", "!"}

\* faulty variant of needsNewSegment: a pause of exactly 1.5 s splits too
needsNewSegmentAtPause(cur, word) ==
  \/ cur = NoSeg
  \/ cur.wordCount >= MaxSegmentWords
  \/ (word.start - cur.lastEnd) >= PauseMs
  \/ \E ch \in TerminalPunctuation : endsWith(cur.text, ch)

\* faulty variant of needsNewSegment: a segment is closed after 19 words
needsNewSegmentAfter19(cur, word) ==
  \/ cur = NoSeg
  \/ cur.wordCount > MaxSegmentWords
  \/ (word.start - cur.lastEnd) > PauseMs
  \/ \E ch \in TerminalPunctuation : endsWith(cur.text, ch)

needsNewSegment(cur, word) ==
  \/ cur = NoSeg
  \/ cur.wordCount >= MaxSegmentWords
  \/ (word.start - cur.lastEnd) > PauseMs
  \/ \E ch \in TerminalPunctuation : endsWith(cur.text, ch)

\* the last segment is pushed only if (currentSeg && currentSeg.text)
PushesLast(cur) == cur # NoSeg /\ Truthy(cur.text)

\* one turn of the loop over words: st holds segments and currentSeg
LoopBody(st, word) ==
  LET cur == st.currentSeg
      new == needsNewSegment(cur, word)
      cur1 == IF new
              THEN [start |-> word.start, text |-> <<>>, wordCount |-> 0,
                    lastEnd |-> word.end]
              ELSE cur
  IN  [segments |-> IF new /\ cur # NoSeg
                    THEN Append(st.segments, ClosedSeg(cur))
                    ELSE st.segments,
       currentSeg |-> [start |-> cur1.start,
                       text |-> (IF Truthy(cur1.text)
                                 THEN cur1.text \o <<Space>>
                                 ELSE <<>>) \o word.text,
                       wordCount |-> cur1.wordCount + 1,
                       lastEnd |-> word.end]]

\* segments and currentSeg after the first i words
RECURSIVE GroupLoop(_, _)
GroupLoop(ws, i) ==
  IF i = 0 THEN [segments |-> <<>>, currentSeg |-> NoSeg]
  ELSE LET st == GroupLoop(ws, i - 1)
       IN  LoopBody(st, ws[i])

groupWordsIntoSegments(ws, ft) ==
  IF ws = <<>>
  THEN IF Truthy(ft) THEN <<[start |-> 0, duration |-> 0, text |-> ft]>>
       ELSE <<>>
  ELSE LET st == GroupLoop(ws, Len(ws))
       IN  IF PushesLast(st.currentSeg)
           THEN Append(st.segments, ClosedSeg(st.currentSeg))
           ELSE st.segments

\* what a completed job can hold: pollData.words and pollData.text
Completions ==
  {[words |-> <<>>, text |-> t] : t \in {<<>>, <<Space>>, <<"a">>}}
    \cup
  {[words |-> w, text |-> <<"a">>] :
     w \in { <<[start |-> 500, end |-> 900, text |-> <<"a">>]>>,
             <<[start |-> 500, end |-> 900, text |-> <<Space>>]>>,
             <<[start |-> 900, end |-> 500, text |-> <<"a">>]>>,
             <<[start |-> 0, end |-> 295, text |-> <<"a">>]>>,
             <<[start |-> 1005, end |-> 2010, text |-> <<"a">>]>>,
             <<[start |-> 500, end |-> 900, text |-> <<"a", ".">>],
               [start |-> 900, end |-> 1300, text |-> <<"b">>]>> }}

\* what a status request let the loop see: kind is how the fetch failed or
\* how the body is, words and text are those of a completed job
PollAnswer(kind) == [kind |-> kind, words |-> <<>>, text |-> <<>>]

\* await pollRes.json(): it rejects, or pollData with its status
PollBodies ==
  {PollAnswer(k) : k \in {"malformed", "processing", "error"}}
    \cup {[kind |-> "completed", words |-> c.words, text |-> c.text] :
            c \in Completions}

\* transcribeWithAssemblyAI: a poll that ends the loop
PollOutcome(p) ==
  CASE p.kind \in {"network_error", "malformed"} -> Caught("AssemblyAI error")
    [] p.kind = "http_error" -> Failure("Failed to check transcription status")
    [] p.kind = "completed" ->
         Success(groupWordsIntoSegments(p.words, p.text))
    [] OTHER -> Failure("Transcription failed")

\* faulty variant of TimeoutOutcome: the job id is left out
TimeoutWithoutId(id) == Failure("Transcription is still processing")

\* transcribeWithAssemblyAI: the loop ran out of time
TimeoutOutcome(id) ==
  [Failure("Transcription is still processing") EXCEPT !.transcriptId = id]

\* await submitRes.json(): it rejects, or submitData; an id of Absent is a
\* body without id
SubmitBodies ==
  {[kind |-> "malformed", id |-> Absent]}
    \cup {[kind |-> "ok", id |-> i] : i \in {"job1", Absent}}

\* await response.json() of getYouTubeAudioUrl: it rejects, the video is not
\* playable or has no audio format with a url, or it has one
AudioBodies == {"malformed", "none", "url"}

\* how long an upstream takes to settle a fetch, in ms
FetchTimes == {0, 1000}

SubmitOutcome(s) ==
  IF s.kind = "http_error" THEN Failure("AssemblyAI submit failed")
  ELSE Caught("AssemblyAI error")

\* while (Date.now() - startTime < maxWaitMs)
WithinBudget(t, start) == t - start < maxWaitMs


-----------------------------------------------------------------------------
(* The handler *)

Revisions == {"extractor", "innertube"}

SessionIds == {Absent, "bad", "cs_paid", "cs_unpaid", "cs_gone"}

Req(m, v, mode, ip, sid) ==
  [method |-> m, validId |-> v, mode |-> mode, ip |-> ip, sessionId |-> sid]

\* requests: a preflight, a bad video id, single mode from each IP, bulk mode
\* with each kind of session id, and a mode that is neither
Requests ==
  {Req("OPTIONS", TRUE, "single", "ip1", Absent),
   Req("GET", FALSE, "single", "ip1", Absent),
   Req("GET", TRUE, "other", "ip1", Absent)}
    \cup {Req("GET", TRUE, "single", ip, Absent) : ip \in IPs}
    \cup {Req("GET", TRUE, "bulk", "ip1", sid) : sid \in SessionIds}

\* sessionId && sessionId.startsWith('cs_')
SessionWellFormed(sid) == sid \in {"cs_paid", "cs_unpaid", "cs_gone"}

\* stripe.checkout.sessions.retrieve(sessionId): the session's payment_status,
\* or "throws" for a session Stripe cannot retrieve
StripeRetrieve(sid) ==
  CASE sid = "cs_paid" -> "paid"
    [] sid = "cs_unpaid" -> "unpaid"
    [] OTHER -> "throws"

\* faulty variant of PaymentVerified: payment_status is not looked at
PaymentVerifiedUnlessThrows(answer) == answer # "throws"

\* session.payment_status !== 'paid' and the catch both answer 403
PaymentVerified(answer) == answer = "paid"

Services == {"stripe", "captions", "title", "audio", "assemblyai"}

NoCalls == [s \in Services |-> 0]

Called(c, service, n) == [c EXCEPT ![service] = @ + n]

NoResponse ==
  [status |-> 0, error |-> Absent, source |-> Absent, transcriptId |-> Absent,
   segments |-> <<>>, totalSegments |-> 0]

\* res.status(code).json({ error })
ErrorResponse(code, err) == [NoResponse EXCEPT !.status = code, !.error = err]

\* res.status(200).json({ ...result.data, source })
OkResponse(o, src) ==
  [NoResponse EXCEPT !.status = 200, !.source = src,
                     !.segments = o.segments,
                     !.totalSegments = o.totalSegments]

\* sttResult.transcriptId || null
OrNull(id) == IF id = Absent THEN Null ELSE id

\* res.status(500).json({ error, transcriptId, source: 'assemblyai_failed' })
SttFailedResponse(o) ==
  [NoResponse EXCEPT !.status = 500, !.error = o.error,
                     !.transcriptId = OrNull(o.transcriptId),
                     !.source = "assemblyai_failed"]

NoCaptionsResponse ==
  [NoResponse EXCEPT
     !.status = 404,
     !.error = "No captions available and speech-to-text is not configured.",
     !.source = "none"]

\* the handler's catch
InternalError == ErrorResponse(500, "Internal server error")

\* faulty variants of FallsBackToStt: the key is not looked at; the fallback
\* is kept for bulk mode
FallsBackAlways(r, key) == TRUE

FallsBackInBulkOnly(r, key) == key /\ r.mode = "bulk"

\* if (!ASSEMBLYAI_KEY) return 404; the fallback runs in all modes
FallsBackToStt(r, key) == key

\* the handler up to its first await: a response, or NoResponse to go on
Admission(r, limited, stripeOk) ==
  CASE r.method = "OPTIONS" -> [NoResponse EXCEPT !.status = 200]
    [] ~r.validId -> ErrorResponse(400, "Invalid or missing video ID")
    [] r.mode = "single" /\ limited -> ErrorResponse(429, "Rate limit exceeded")
    [] r.mode = "bulk" /\ ~SessionWellFormed(r.sessionId) ->
         ErrorResponse(403, "Payment required")
    [] r.mode = "bulk" /\ ~stripeOk ->
         ErrorResponse(500, "Payment verification is not configured")
    [] OTHER -> NoResponse

\* the rate limiter is consulted in single mode only, after the id check
ConsultsLimiter(r) == r.method # "OPTIONS" /\ r.validId /\ r.mode = "single"

\* what the handler does with the outcome of transcribeWithAssemblyAI
SttResponse(o) ==
  IF o.threw THEN InternalError
  ELSE IF o.success THEN OkResponse(o, "assemblyai")
  ELSE SttFailedResponse(o)

NoOutcome == Failure("none")

Attempt(strategy, o) ==
  [strategy |-> strategy,
   result |-> IF o.threw THEN "threw"
              ELSE IF o.success THEN "success" ELSE "failure"]

\* the request goes on, waiting at `next` inside position `position`
Await(position, next) ==
  /\ pc' = position
  /\ awaiting' = next
  /\ UNCHANGED <<response, responses>>

Send(resp) ==
  /\ response' = resp
  /\ responses' = responses + 1
  /\ pc' = "done"
  /\ awaiting' = "none"

\* an awaited fetch of `service` has settled, fetchMs after it was sent
Fetched(service) ==
  /\ calls' = Called(calls, service, 1)
  /\ now' = now + fetchMs

\* the caption strategy that is running
Strategy == CaptionStrategies(rev)[Len(attempts) + 1]

\* const captionResult = await tryYouTubeCaptions(videoId) begins
CallCaptions == Await("captions", FirstAwait(CaptionStrategies(rev)[1]))

Receive ==
  /\ rev \in Revisions
  /\ pc = "start"
  /\ LET limited == ConsultsLimiter(req) /\ isRateLimited(rateMap, now, req.ip)
         adm == Admission(req, limited, stripe)
     IN  /\ rateMap' = IF ConsultsLimiter(req)
                       THEN rateMapAfter(rateMap, now, req.ip)
                       ELSE rateMap
         /\ IF adm # NoResponse THEN Send(adm)
            ELSE IF req.mode = "bulk" THEN Await("verify", "retrieve")
            ELSE CallCaptions
  /\ UNCHANGED <<inputVars, now, attempts, lastOutcome, parsed, calls,
                 transcriptId, startTime, lastPoll>>
  /\ UNCHANGED <<historyVars, wordVars, extraVars>>

VerifyPayment ==
  /\ pc = "verify"
  /\ calls' = Called(calls, "stripe", 1)
  /\ IF PaymentVerified(StripeRetrieve(req.sessionId))
     THEN CallCaptions
     ELSE Send(ErrorResponse(403, "Payment not completed or session invalid"))
  /\ UNCHANGED <<inputVars, rateMap, now, attempts, lastOutcome, parsed,
                 transcriptId, startTime, lastPoll>>
  /\ UNCHANGED <<historyVars, wordVars, extraVars>>

\* the running caption strategy goes on to its next await
StrategyAwaits(next) ==
  /\ Await(pc, next)
  /\ UNCHANGED <<attempts, lastOutcome, parsed>>

\* the running caption strategy returns o to tryYouTubeCaptions, which calls
\* the next strategy or returns to the handler; then the handler's step on
\* captionResult
CaptionReturns(o) ==
  LET order == CaptionStrategies(rev)
      k == Len(attempts) + 1
      \* tryYouTubeCaptions' value if it returns now
      result == IF o.threw \/ ReturnsEarly(o) THEN o
                ELSE IF rev = "extractor" THEN Failure(o.error)
                ELSE Failure("No caption tracks found via any method")
  IN  /\ attempts' = Append(attempts, Attempt(order[k], o))
      /\ parsed' = <<>>
      /\ lastOutcome' = IF ~ReturnsEarly(o) /\ k < Len(order) THEN o
                        ELSE result
      /\ IF o.threw THEN Send(InternalError)
         ELSE IF ~ReturnsEarly(o) /\ k < Len(order)
         THEN Await("captions", FirstAwait(order[k + 1]))
         ELSE IF result.success
         THEN Send(OkResponse(result, "youtube_captions"))
         ELSE IF ~FallsBackToStt(req, ASSEMBLYAI_KEY)
         THEN Send(NoCaptionsResponse)
         ELSE Await("stt", "audio_fetch")

\* what no step of a caption strategy changes
captionFrame == <<inputVars, rateMap, transcriptId, startTime, lastPoll,
                  historyVars, wordVars, extraVars>>

\* tryCaptionExtractor: await getVideoDetails({ videoID, lang })
GetVideoDetails ==
  /\ pc = "captions" /\ awaiting = "getVideoDetails"
  /\ calls' = Called(calls, "captions", 1)
  /\ \E u \in ExtractorAnswers : CaptionReturns(tryCaptionExtractor(u))
  /\ UNCHANGED <<now, captionFrame>>

\* tryGetTranscript: await fetch(.../youtubei/v1/get_transcript)
GetTranscriptFetch ==
  /\ pc = "captions" /\ Strategy = "get_transcript" /\ awaiting = "fetch"
  /\ Fetched("captions")
  /\ \E k \in FetchAnswers :
       IF k = "ok" THEN StrategyAwaits("json")
       ELSE CaptionReturns(tryGetTranscript(Answer(k)))
  /\ UNCHANGED captionFrame

\* tryGetTranscript: await response.json() and the cue loop; with segments
\* it goes on to getVideoTitle
GetTranscriptJson ==
  /\ pc = "captions" /\ Strategy = "get_transcript" /\ awaiting = "json"
  /\ \E u \in TranscriptBodies :
       LET o == tryGetTranscript(u)
       IN  IF o.success
           THEN /\ parsed' = o.segments
                /\ Await("captions", "title_fetch")
                /\ UNCHANGED <<attempts, lastOutcome>>
           ELSE CaptionReturns(o)
  /\ UNCHANGED <<now, calls, captionFrame>>

\* tryInnertubeCaption: await fetch(.../youtubei/v1/player);
\* tryScrapeCaption: await fetch(.../watch?v=)
TrackListFetch(s) ==
  /\ pc = "captions" /\ Strategy = s /\ awaiting = "fetch"
  /\ Fetched("captions")
  /\ \E k \in FetchAnswers :
       IF k = "ok" THEN StrategyAwaits("body")
       ELSE CaptionReturns(Try(s, Answer(k)))
  /\ UNCHANGED captionFrame

\* await response.json() / await videoPageRes.text(), then captionTracks and
\* the choice of the track
TrackListBody(s) ==
  /\ pc = "captions" /\ Strategy = s /\ awaiting = "body"
  /\ \E k \in TrackListBodies :
       IF k = "ok" THEN StrategyAwaits("caption_fetch")
       ELSE CaptionReturns(Try(s, Answer(k)))
  /\ UNCHANGED <<now, calls, captionFrame>>

\* const captionRes = await fetch(captionUrl)
CaptionFetch(s) ==
  /\ pc = "captions" /\ Strategy = s /\ awaiting = "caption_fetch"
  /\ Fetched("captions")
  /\ \E k \in FetchAnswers :
       CASE k = "ok" -> StrategyAwaits("caption_json")
         [] k = "http_error" ->
              CaptionReturns(Try(s, Answer("caption_http_error")))
         [] OTHER -> CaptionReturns(Try(s, Answer("caption_network_error")))
  /\ UNCHANGED captionFrame

\* const captionData = await captionRes.json(), then parseJson3Events
CaptionJson(s) ==
  /\ pc = "captions" /\ Strategy = s /\ awaiting = "caption_json"
  /\ \E u \in CaptionBodies : CaptionReturns(Try(s, u))
  /\ UNCHANGED <<now, calls, captionFrame>>

\* getVideoTitle returns to its caller: tryGetTranscript returns its
\* segments, transcribeWithAssemblyAI goes on to the submit
TitleReturns ==
  IF pc = "captions" THEN CaptionReturns(Success(parsed))
  ELSE /\ Await("stt", "submit_fetch")
       /\ UNCHANGED <<attempts, lastOutcome, parsed>>

\* getVideoTitle: await fetch(.../oembed...); a rejection is caught, a status
\* that is not ok returns null
TitleFetch ==
  /\ pc \in {"captions", "stt"} /\ awaiting = "title_fetch"
  /\ Fetched("title")
  /\ \E k \in FetchAnswers :
       IF k = "ok" THEN StrategyAwaits("title_json") ELSE TitleReturns
  /\ UNCHANGED captionFrame

\* getVideoTitle: await res.json(); a rejection is caught
TitleJson ==
  /\ pc \in {"captions", "stt"} /\ awaiting = "title_json"
  /\ TitleReturns
  /\ UNCHANGED <<now, calls, captionFrame>>

\* transcribeWithAssemblyAI returns o; the handler's step on sttResult
SttReturns(o) ==
  /\ attempts' = Append(attempts, Attempt("assemblyai", o))
  /\ lastOutcome' = o
  /\ Send(SttResponse(o))

\* transcribeWithAssemblyAI goes on to its next await
SttAwaits(position, next) ==
  /\ Await(position, next)
  /\ UNCHANGED <<attempts, lastOutcome>>

\* what no step of transcribeWithAssemblyAI changes
sttFrame == <<inputVars, rateMap, parsed, historyVars, wordVars, extraVars>>

\* if (!audioUrl) return { success: false, error }
NoAudioUrl == Failure("Could not extract audio URL from YouTube")

\* getYouTubeAudioUrl: await fetch(.../youtubei/v1/player); a rejection is
\* caught and a status that is not ok returns null
AudioFetch ==
  /\ pc = "stt" /\ awaiting = "audio_fetch"
  /\ Fetched("audio")
  /\ \E k \in FetchAnswers :
       IF k = "ok" THEN SttAwaits("stt", "audio_json")
       ELSE SttReturns(NoAudioUrl)
  /\ UNCHANGED <<transcriptId, startTime, lastPoll, sttFrame>>

\* getYouTubeAudioUrl: await response.json(), playabilityStatus and the
\* audio formats; then getVideoTitle
AudioJson ==
  /\ pc = "stt" /\ awaiting = "audio_json"
  /\ \E body \in AudioBodies :
       IF body = "url" THEN SttAwaits("stt", "title_fetch")
       ELSE SttReturns(NoAudioUrl)
  /\ UNCHANGED <<now, calls, transcriptId, startTime, lastPoll, sttFrame>>

\* const submitRes = await fetch('https://api.assemblyai.com/v2/transcript')
SubmitFetch ==
  /\ pc = "stt" /\ awaiting = "submit_fetch"
  /\ Fetched("assemblyai")
  /\ \E k \in FetchAnswers :
       CASE k = "ok" -> SttAwaits("stt", "submit_json")
         [] k = "http_error" -> SttAwaits("stt", "submit_error_json")
         [] OTHER -> SttReturns(SubmitOutcome([kind |-> k, id |-> Absent]))
  /\ UNCHANGED <<transcriptId, startTime, lastPoll, sttFrame>>

\* await submitRes.json().catch(() => ({})) of a refused submit
SubmitErrorJson ==
  /\ pc = "stt" /\ awaiting = "submit_error_json"
  /\ SttReturns(SubmitOutcome([kind |-> "http_error", id |-> Absent]))
  /\ UNCHANGED <<now, calls, transcriptId, startTime, lastPoll, sttFrame>>

\* const submitData = await submitRes.json(); transcriptId, startTime and the
\* first test of the loop, which passes
SubmitJson ==
  /\ pc = "stt" /\ awaiting = "submit_json"
  /\ \E s \in SubmitBodies :
       IF s.kind = "ok"
       THEN /\ transcriptId' = s.id
            /\ startTime' = now
            /\ SttAwaits("poll", "sleep")
       ELSE /\ SttReturns(SubmitOutcome(s))
            /\ UNCHANGED <<transcriptId, startTime>>
  /\ UNCHANGED <<now, calls, lastPoll, sttFrame>>

\* await sleep(pollIntervalMs)
SttSleep ==
  /\ pc = "poll" /\ awaiting = "sleep"
  /\ now' = now + pollIntervalMs
  /\ SttAwaits("poll", "fetch")
  /\ UNCHANGED <<calls, transcriptId, startTime, lastPoll, sttFrame>>

\* const pollRes = await fetch(`.../v2/transcript/${transcriptId}`)
PollFetch ==
  /\ pc = "poll" /\ awaiting = "fetch"
  /\ Fetched("assemblyai")
  /\ \E k \in FetchAnswers :
       IF k = "ok"
       THEN SttAwaits("poll", "json") /\ UNCHANGED lastPoll
       ELSE /\ lastPoll' = k
            /\ SttReturns(PollOutcome(PollAnswer(k)))
  /\ UNCHANGED <<transcriptId, startTime, sttFrame>>

\* const pollData = await pollRes.json(), its status, and for a job that is
\* still running the test of the loop: while (Date.now() - startTime <
\* maxWaitMs), else the return after the loop
PollJson ==
  /\ pc = "poll" /\ awaiting = "json"
  /\ \E p \in PollBodies :
       /\ lastPoll' = p.kind
       /\ IF p.kind # "processing" THEN SttReturns(PollOutcome(p))
          ELSE IF WithinBudget(now, startTime) THEN SttAwaits("poll", "sleep")
          ELSE SttReturns(TimeoutOutcome(transcriptId))
  /\ UNCHANGED <<now, calls, transcriptId, startTime, sttFrame>>

-----------------------------------------------------------------------------
(* The aggregator revision of the endpoint (part_013): one call to Supadata, *)
(* retried once                                                              *)

\* the platforms detectPlatform tells apart; every allowed host is one
Platforms == {"youtube", "tiktok", "instagram", "facebook", "twitter"}

\* req of the aggregator revision: url stands for what ?url= / ?v= hold,
\* platform for detectPlatform(videoUrl) of a url that is allowed
\* sessionId is ?session_id=, which this revision's handler never reads
AggReq(m, url, platform, mode, ip, sid) ==
  [method |-> m, url |-> url, platform |-> platform, mode |-> mode, ip |-> ip,
   sessionId |-> sid]

AggRequests ==
  {AggReq("OPTIONS", "ok", "youtube", "single", "ip1", Absent)}
    \cup {AggReq("GET", url, "youtube", "single", "ip1", Absent) :
            url \in {"missing", "bad_id", "not_allowed"}}
    \cup {AggReq("GET", "ok", p, "single", "ip1", Absent) : p \in Platforms}
    \cup {AggReq("GET", "ok", "youtube", "other", "ip1", Absent)}
    \cup {AggReq("GET", "ok", "youtube", "bulk", "ip1", sid) :
            sid \in {Absent, "cs_paid"}}

\* the SELECT of getSession: it throws, it finds no row (or there is no
\* well-formed tg_session cookie to look up), or it finds the user's row
SessionLookups == {"throws", "none", "row"}

\* outcomes of fetchTranscript: { success, async?, noCaptions?, error?, data? }
AggOutcome(success, async, noCaptions, err, segs) ==
  [success |-> success, async |-> async, noCaptions |-> noCaptions,
   error |-> err, segments |-> segs, totalSegments |-> Len(segs)]

NoAggOutcome == AggOutcome(FALSE, FALSE, FALSE, "none", <<>>)

\* how await fetch(api.supadata.ai/v1/transcript) settles
AggFetchAnswers == {"network_error", "accepted_202", "http_error", "ok"}

\* what the aggregator let fetchTranscript see so far
AggAnswer(kind) == [kind |-> kind, content |-> <<>>]

\* await res.json(): it rejects, or the content, a list of cues
AggBodies ==
  {AggAnswer("malformed")}
    \cup {[kind |-> "ok", content |-> c] :
            c \in {<<>>,
                   <<[start |-> 0, dur |-> 1000, text |-> <<"\t", Space>>]>>,
                   <<[start |-> 0, dur |-> 0, text |-> <<"a", "\n">>]>>,
                   <<[start |-> 1500, dur |-> 1000, text |-> <<"a">>]>>}}

\* rawSegments.filter(s => s.text?.trim()).map(...)
SupadataSegments(content) ==
  LET kept == SelectSeq(content, LAMBDA c : Truthy(Trim(TextOf(c))))
  IN  [i \in 1..Len(kept) |->
         [start |-> FieldOr0(kept[i], "start"),
          duration |-> FieldOr0(kept[i], "dur"),
          text |-> Trim(TextOf(kept[i]))]]

fetchTranscript(u) ==
  CASE u.kind \in {"network_error", "malformed"} ->
         AggOutcome(FALSE, FALSE, FALSE, "Transcript service error", <<>>)
    [] u.kind = "accepted_202" -> AggOutcome(FALSE, TRUE, FALSE, Absent, <<>>)
    [] u.kind = "http_error" ->
         AggOutcome(FALSE, FALSE, FALSE, "Transcript service error (status)",
                    <<>>)
    [] u.content = <<>> \/ SupadataSegments(u.content) = <<>> ->
         AggOutcome(FALSE, FALSE, TRUE,
                    "This video doesn't have captions available.", <<>>)
    [] OTHER ->
         AggOutcome(TRUE, FALSE, FALSE, Absent, SupadataSegments(u.content))

\* faulty variant of RetriesAfter: every failure is retried
RetriesAfterAnyFailure(result) == ~result.success

\* if (!result.success && !result.noCaptions && !result.async)
RetriesAfter(result) ==
  ~result.success /\ ~result.noCaptions /\ ~result.async

\* the pause before the second call: setTimeout(r, 1500)
retryDelayMs == 1500

NoAggResponse ==
  [status |-> 0, error |-> Absent, source |-> Absent, async |-> FALSE,
   no_captions |-> FALSE, segments |-> <<>>, totalSegments |-> 0]

AggError(code, err) == [NoAggResponse EXCEPT !.status = code, !.error = err]

\* what the handler answers from result
AggResponse(result) ==
  IF result.async THEN [NoAggResponse EXCEPT !.status = 202, !.async = TRUE]
  ELSE IF result.success
  THEN [NoAggResponse EXCEPT !.status = 200, !.source = "supadata",
                             !.segments = result.segments,
                             !.totalSegments = result.totalSegments]
  ELSE [NoAggResponse EXCEPT !.status = 404, !.error = result.error,
                             !.no_captions = result.noCaptions,
                             !.source = "none"]

\* the handler up to its first await: a response, or NoAggResponse to go on
AggAdmission(r, limited, key) ==
  CASE r.method = "OPTIONS" -> [NoAggResponse EXCEPT !.status = 200]
    [] r.url = "bad_id" -> AggError(400, "Invalid video ID")
    [] r.url = "missing" -> AggError(400, "Missing video URL")
    [] r.url = "not_allowed" -> AggError(400, "Unsupported platform")
    [] r.mode = "single" /\ limited -> AggError(429, "Rate limit exceeded")
    [] r.mode # "bulk" /\ ~key ->
         AggError(500, "Transcript service is not available.")
    [] OTHER -> NoAggResponse

AggConsultsLimiter(r) ==
  r.method # "OPTIONS" /\ r.url = "ok" /\ r.mode = "single"

AggReceive ==
  /\ rev = "aggregator"
  /\ pc = "start"
  /\ LET consults == AggConsultsLimiter(req)
         limited == consults /\ isRateLimited(rateMap, now, req.ip)
         adm == AggAdmission(req, limited, SUPADATA_KEY)
     IN  /\ rateMap' = IF consults THEN rateMapAfter(rateMap, now, req.ip)
                       ELSE rateMap
         /\ IF adm # NoAggResponse THEN Send(adm)
            ELSE IF req.mode = "bulk" THEN Await("session", "select")
            ELSE Await("fetch", "fetch")
  /\ UNCHANGED <<inputVars, now, attempts, lastOutcome, parsed, calls,
                 transcriptId, startTime, lastPoll>>
  /\ UNCHANGED <<historyVars, wordVars, trackVars, aggVars, dbVars, payVars,
                 gen, lateVars>>

\* the auto-reset of getSession: UPDATE users SET monthly_usage = 0, ...
resetUsage(row) == [row EXCEPT !.monthly_usage = 0, !.resetDue = FALSE]

\* bulk mode after getSession returned user: the tier, then the key check
AggGate(user) ==
  IF user.tier # "pro"
  THEN Send(AggError(402, "Pro subscription required for bulk downloads."))
  ELSE IF ~SUPADATA_KEY
  THEN Send(AggError(500, "Transcript service is not available."))
  ELSE Await("fetch", "fetch")

\* what no step of the aggregator revision after the admission changes
aggFrame == <<inputVars, rateMap, transcriptId, startTime, lastPoll,
              SUPADATA_KEY, historyVars, wordVars, trackVars,
              single_credits, processed_checkouts, payVars, gen, lateVars>>

\* getSession: the SELECT over sessions and users; an exception and no user
\* are answered 402
AggSession ==
  /\ pc = "session" /\ awaiting = "select"
  /\ \E found \in SessionLookups :
       IF found # "row"
       THEN Send(AggError(402, "Pro subscription required for bulk downloads."))
       ELSE IF users.resetDue THEN Await("session", "reset")
       ELSE AggGate(users)
  /\ UNCHANGED <<now, attempts, lastOutcome, parsed, calls, supadataCalls,
                 users, aggFrame>>

\* getSession: the auto-reset UPDATE of a user whose usage_reset_at has
\* passed; the statement may fail, which the handler's catch answers 402
AggSessionReset ==
  /\ pc = "session" /\ awaiting = "reset"
  /\ \E dbOk \in BOOLEAN :
       IF dbOk
       THEN /\ users' = resetUsage(users)
            /\ AggGate(users)
       ELSE /\ Send(AggError(402,
                             "Pro subscription required for bulk downloads."))
            /\ UNCHANGED users
  /\ UNCHANGED <<now, attempts, lastOutcome, parsed, calls, supadataCalls,
                 aggFrame>>

\* fetchTranscript goes on to its next await
AggAwaits(next) ==
  /\ Await("fetch", next)
  /\ UNCHANGED <<attempts, lastOutcome>>

\* fetchTranscript returns result to the handler: the first plain failure is
\* followed by the pause, every other result by the response
AggReturns(result) ==
  /\ attempts' = Append(attempts, result)
  /\ lastOutcome' = result
  /\ IF attempts = <<>> /\ RetriesAfter(result) THEN Await("fetch", "timer")
     ELSE Send(AggResponse(result))

\* fetchTranscript: await fetch(api.supadata.ai/v1/transcript?url=...)
AggFetch ==
  /\ pc = "fetch" /\ awaiting = "fetch"
  /\ supadataCalls' = supadataCalls + 1
  /\ now' = now + fetchMs
  /\ \E k \in AggFetchAnswers :
       CASE k = "ok" -> AggAwaits("json")
         [] k = "http_error" -> AggAwaits("error_text")
         [] OTHER -> AggReturns(fetchTranscript(AggAnswer(k)))
  /\ UNCHANGED <<parsed, calls, users, aggFrame>>

\* fetchTranscript: await res.text().catch(() => '') of a status not ok
AggErrorText ==
  /\ pc = "fetch" /\ awaiting = "error_text"
  /\ AggReturns(fetchTranscript(AggAnswer("http_error")))
  /\ UNCHANGED <<now, parsed, calls, supadataCalls, users, aggFrame>>

\* getVideoTitle asks oEmbed for a youtube or tiktok url only
TitleByFetch(platform) == platform \in {"youtube", "tiktok"}

\* fetchTranscript: await res.json() and the segments; with segments it goes
\* on to getVideoTitle, which for a platform without oEmbed returns at once
AggJson ==
  /\ pc = "fetch" /\ awaiting = "json"
  /\ \E u \in AggBodies :
       LET result == fetchTranscript(u)
       IN  IF result.success /\ TitleByFetch(req.platform)
           THEN /\ parsed' = result.segments
                /\ AggAwaits("title_fetch")
           ELSE /\ AggReturns(result)
                /\ UNCHANGED parsed
  /\ UNCHANGED <<now, calls, supadataCalls, users, aggFrame>>

\* getVideoTitle returns and fetchTranscript returns its segments
AggTitleReturns ==
  /\ AggReturns(AggOutcome(TRUE, FALSE, FALSE, Absent, parsed))
  /\ parsed' = <<>>

\* getVideoTitle: await fetch(.../oembed?url=...); a rejection is caught, a
\* status that is not ok returns null
AggTitleFetch ==
  /\ pc = "fetch" /\ awaiting = "title_fetch"
  /\ Fetched("title")
  /\ \E k \in FetchAnswers :
       IF k = "ok" THEN AggAwaits("title_json") /\ UNCHANGED parsed
       ELSE AggTitleReturns
  /\ UNCHANGED <<supadataCalls, users, aggFrame>>

\* getVideoTitle: await res.json(); a rejection is caught
AggTitleJson ==
  /\ pc = "fetch" /\ awaiting = "title_json"
  /\ AggTitleReturns
  /\ UNCHANGED <<now, calls, supadataCalls, users, aggFrame>>

\* await new Promise(r => setTimeout(r, 1500)), then the second call
AggTimer ==
  /\ pc = "fetch" /\ awaiting = "timer"
  /\ now' = now + retryDelayMs
  /\ AggAwaits("fetch")
  /\ UNCHANGED <<parsed, calls, supadataCalls, users, aggFrame>>

\* no request to the aggregator revision is in progress
AggIdle ==
  /\ SUPADATA_KEY = FALSE
  /\ supadataCalls = 0

-----------------------------------------------------------------------------
(* The database (api/_db.js) and the handlers that grant a paid checkout:    *)
(* the Stripe webhook and the post-checkout redirect (auth/link-stripe.js)   *)

\* what the model does not change outside the database handlers
restVars == <<rateMap, now, pc, handlerVars, historyVars, wordVars,
              trackVars, aggVars, lateVars>>

\* a row of users: tier, credits, monthly_usage, whether usage_reset_at has
\* passed, and the Stripe ids, NULL until a purchase sets them
User(tier, credits, usage, resetDue) ==
  [tier |-> tier, credits |-> credits, monthly_usage |-> usage,
   resetDue |-> resetDue, stripe_customer_id |-> Null,
   stripe_subscription_id |-> Null]

\* the row with Stripe ids
WithStripe(u, customerId, subId) ==
  [u EXCEPT !.stripe_customer_id = customerId,
            !.stripe_subscription_id = subId]

\* UPDATE users SET credits = credits + 1
incrementCredits(u) == [u EXCEPT !.credits = @ + 1]

\* UPDATE users SET tier = 'pro', stripe_customer_id, stripe_subscription_id,
\* monthly_usage = 0, usage_reset_at = ...
setProStatus(u, customerId, subId) ==
  [u EXCEPT !.tier = "pro", !.stripe_customer_id = customerId,
            !.stripe_subscription_id = subId, !.monthly_usage = 0,
            !.resetDue = FALSE]

\* updateUser(userId, { stripe_customer_id: customerId })
updateUser(u, customerId) == [u EXCEPT !.stripe_customer_id = customerId]

\* UPDATE users SET tier = 'free', stripe_subscription_id = NULL
\* WHERE stripe_subscription_id = ...
downgradeUser(u, subId) ==
  IF u.stripe_subscription_id = subId
  THEN [u EXCEPT !.tier = "free", !.stripe_subscription_id = Null]
  ELSE u

\* SELECT * FROM users WHERE stripe_customer_id = ...; rows[0] || null
findUserByStripeCustomer(u, customerId) == u.stripe_customer_id = customerId

\* faulty variant of claimCheckoutSession: the insert always returns a row
claimAlways(claimed, sid) == TRUE

\* claimCheckoutSession: INSERT ... ON CONFLICT (stripe_session_id) DO NOTHING
\* RETURNING *; rows.length > 0
claimCheckoutSession(claimed, sid) == sid \notin claimed

\* the invocations: two deliveries of a webhook event and two visits of the
\* redirect URL, all for the same session id
Webhooks == {"webhook1", "webhook2"}

Redirects == {"redirect1", "redirect2"}

\* a checkout session: its mode, payment_status === 'paid', whose
\* client_reference_id it holds (Absent on an anonymous purchase), and its
\* customer and subscription (Absent when the session has none)
Checkouts ==
  [id : {"cs_1"}, mode : {"payment", "subscription"}, paid : BOOLEAN,
   client_reference_id : {"user1", Absent}, customer : {"cus_1", Absent},
   subscription : {"sub_1", Absent}]

\* the checkout of a state where no payment handler runs
NoCheckout ==
  [id |-> "cs_1", mode |-> "payment", paid |-> FALSE,
   client_reference_id |-> Absent, customer |-> Absent,
   subscription |-> Absent]

\* who getSession(req) finds on a redirect
Visitors == {"user1", "user2", Absent}

\* event.type of a delivery; "other" stands for every type the switch ignores
EventTypes ==
  {"checkout.session.completed", "customer.subscription.updated",
   "customer.subscription.deleted", "other"}

\* sub.status of a customer.subscription event
SubStatuses ==
  {"active", "trialing", "past_due", "unpaid", "canceled", "incomplete"}

\* event.data.object of the customer.subscription events: sub.id, sub.customer
Subscription == [id |-> "sub_1", customer |-> "cus_1"]

\* switch (event.type): where the webhook goes after the signature check
WebhookRoute(type, status) ==
  CASE type = "checkout.session.completed" ->
         IF checkout.client_reference_id # Absent /\ checkout.paid
         THEN "claim" ELSE "done"
    [] type = "customer.subscription.updated" ->
         IF status \in {"active", "trialing"} THEN "find"
         ELSE IF status \in {"past_due", "unpaid", "canceled"}
         THEN "downgrade"
         ELSE "done"
    [] type = "customer.subscription.deleted" -> "downgrade"
    [] OTHER -> "done"

\* the webhook up to its first database call: signature, event type, then
\* userId and payment_status of a checkout, or the status of a subscription
WebhookBegin(p) ==
  /\ p \in Webhooks
  /\ pay[p] = "start"
  /\ \E verified \in BOOLEAN, type \in EventTypes, status \in SubStatuses :
       pay' = [pay EXCEPT ![p] =
                 IF verified THEN WebhookRoute(type, status) ELSE "done"]
  /\ UNCHANGED <<restVars, dbVars, checkout, granted, gen>>

\* link-stripe: the test of session_id and the SELECT of getSession; no
\* visitor when the id is not a checkout id, the cookie names no live session
\* or the query fails; the visitor whose usage_reset_at has passed is reset
\* next
RedirectBegin(p) ==
  /\ p \in Redirects
  /\ pay[p] = "start"
  /\ \E visitor \in Visitors :
       pay' = [pay EXCEPT ![p] =
                 IF visitor = Absent THEN "done"
                 ELSE IF visitor # "user1" THEN "retrieveOther"
                 ELSE IF users.resetDue THEN "reset"
                 ELSE "retrieve"]
  /\ UNCHANGED <<restVars, dbVars, checkout, granted, gen>>

\* getSession: the auto-reset UPDATE of the visitor's row; its failure is
\* caught by the handler, which redirects to the error page
RedirectReset(p) ==
  /\ p \in Redirects
  /\ pay[p] = "reset"
  /\ \E dbOk \in BOOLEAN :
       IF dbOk
       THEN /\ users' = resetUsage(users)
            /\ pay' = [pay EXCEPT ![p] = "retrieve"]
       ELSE /\ pay' = [pay EXCEPT ![p] = "done"]
            /\ UNCHANGED users
  /\ UNCHANGED <<restVars, single_credits, processed_checkouts, checkout,
                 granted, gen>>

\* the visitor the redirect at this position found
RedirectVisitor(position) ==
  IF position = "retrieve" THEN "user1" ELSE "user2"

\* session = await stripe.checkout.sessions.retrieve(sessionId), then
\* payment_status and client_reference_id === String(user.id)
RedirectRetrieve(p) ==
  /\ p \in Redirects
  /\ pay[p] \in {"retrieve", "retrieveOther"}
  /\ \E retrieved \in BOOLEAN :
       pay' = [pay EXCEPT ![p] =
                 IF retrieved /\ checkout.paid
                      /\ checkout.client_reference_id = RedirectVisitor(pay[p])
                 THEN "claim" ELSE "done"]
  /\ UNCHANGED <<restVars, dbVars, checkout, granted, gen>>

\* const claimed = await claimCheckoutSession(session.id, userId); the
\* statement may fail, which the handler's catch swallows
Claim(p) ==
  /\ pay[p] = "claim"
  /\ \E dbOk \in BOOLEAN :
       IF dbOk
       THEN /\ processed_checkouts' = processed_checkouts \cup {checkout.id}
            /\ pay' = [pay EXCEPT ![p] =
                         IF claimCheckoutSession(processed_checkouts,
                                                 checkout.id)
                         THEN "grant" ELSE "done"]
       ELSE /\ pay' = [pay EXCEPT ![p] = "done"]
            /\ UNCHANGED processed_checkouts
  /\ UNCHANGED <<restVars, users, single_credits, checkout, granted, gen>>

\* session.mode === 'subscription' && session.subscription
GrantsPro(session) ==
  session.mode = "subscription" /\ session.subscription # Absent

\* setProStatus(userId, customerId, subId) for a subscription,
\* incrementCredits(userId) otherwise; the statement may fail
Grant(p) ==
  /\ pay[p] = "grant"
  /\ \E dbOk \in BOOLEAN :
       IF dbOk
       THEN /\ users' = IF GrantsPro(checkout)
                        THEN setProStatus(users, OrNull(checkout.customer),
                                          checkout.subscription)
                        ELSE incrementCredits(users)
            /\ granted' = granted + 1
            /\ pay' = [pay EXCEPT ![p] =
                         IF ~GrantsPro(checkout) /\ checkout.customer # Absent
                         THEN "link" ELSE "done"]
       ELSE /\ pay' = [pay EXCEPT ![p] = "done"]
            /\ UNCHANGED <<users, granted>>
  /\ UNCHANGED <<restVars, single_credits, processed_checkouts, checkout, gen>>

\* if (customerId) await updateUser(userId, { stripe_customer_id })
LinkCustomer(p) ==
  /\ pay[p] = "link"
  /\ \E dbOk \in BOOLEAN :
       users' = IF dbOk THEN updateUser(users, checkout.customer) ELSE users
  /\ pay' = [pay EXCEPT ![p] = "done"]
  /\ UNCHANGED <<restVars, single_credits, processed_checkouts, checkout,
                 granted, gen>>

\* customer.subscription.updated, active or trialing:
\* const user = await findUserByStripeCustomer(customerId), and the test
\* user && user.tier !== 'pro' on the row it returned
SubscriptionFind(p) ==
  /\ p \in Webhooks
  /\ pay[p] = "find"
  /\ \E dbOk \in BOOLEAN :
       pay' = [pay EXCEPT ![p] =
                 IF dbOk
                      /\ findUserByStripeCustomer(users, Subscription.customer)
                      /\ users.tier # "pro"
                 THEN "upgrade" ELSE "done"]
  /\ UNCHANGED <<restVars, dbVars, checkout, granted, gen>>

\* await setProStatus(user.id, customerId, sub.id)
SubscriptionUpgrade(p) ==
  /\ p \in Webhooks
  /\ pay[p] = "upgrade"
  /\ \E dbOk \in BOOLEAN :
       users' = IF dbOk
                THEN setProStatus(users, Subscription.customer,
                                  Subscription.id)
                ELSE users
  /\ pay' = [pay EXCEPT ![p] = "done"]
  /\ UNCHANGED <<restVars, single_credits, processed_checkouts, checkout,
                 granted, gen>>

\* await downgradeUser(sub.id): customer.subscription.deleted, and
\* customer.subscription.updated to past_due, unpaid or canceled
SubscriptionDowngrade(p) ==
  /\ p \in Webhooks
  /\ pay[p] = "downgrade"
  /\ \E dbOk \in BOOLEAN :
       users' = IF dbOk THEN downgradeUser(users, Subscription.id) ELSE users
  /\ pay' = [pay EXCEPT ![p] = "done"]
  /\ UNCHANGED <<restVars, single_credits, processed_checkouts, checkout,
                 granted, gen>>

-----------------------------------------------------------------------------
(* The generate handler (api/generate.js) and its gating                     *)

MONTHLY_LIMIT == 200

\* canGenerate(user) for a signed-in user: "" when allowed, else the reason
canGenerate(user) ==
  IF user.tier = "pro"
  THEN IF user.monthly_usage >= MONTHLY_LIMIT THEN "monthly_limit" ELSE Absent
  ELSE IF user.credits > 0 THEN Absent ELSE "upgrade"

\* consumeCredit(user): the branch is chosen by the tier the request read,
\* the update is applied to the row as it is now
consumeCredit(row, user) ==
  IF user.tier = "pro"
  THEN [row EXCEPT !.monthly_usage = @ + 1]
  ELSE [row EXCEPT !.credits = @ - 1]

\* the row createSingleCredit inserts, at day 0: used defaults to FALSE
NewCredit == [exists |-> TRUE, used |-> FALSE, created_at |-> 0]

\* getSingleCredit(token): the row, if it is there and its used flag is FALSE
getSingleCredit(row) == row.exists /\ ~row.used

\* consumeSingleCredit(token): UPDATE ... SET used = TRUE WHERE used = FALSE
consumeSingleCredit(row) ==
  IF row.exists THEN [row EXCEPT !.used = TRUE] ELSE row

\* faulty variant of ConsumesAfter: the credit is taken whatever the AI did
ConsumesAlways(aiOk) == TRUE

\* the consumption sits behind the awaited callGemini inside the try block
ConsumesAfter(aiOk) == aiOk

\* the concurrent requests
GenProcs == {"gen1", "gen2"}

\* a request that has not started
GenStart ==
  [pc |-> "start", tg_credit |-> FALSE, tg_session |-> FALSE,
   tg_free_gen |-> FALSE, creditToken |-> FALSE, hasUser |-> FALSE,
   user |-> User("free", 0, 0, FALSE), video |-> FALSE, aiOk |-> FALSE,
   status |-> 0, content |-> FALSE,
   before |-> [users |-> User("free", 0, 0, FALSE),
               single_credits |-> NewCredit]]

\* what the handler answers before the gating: preflight, wrong method, rate
\* limit, bad transcript or formats; 0 when the request goes on
GenAdmissions == {200, 405, 429, 400, 0}

\* the response of the gating for the session the request found
GateStatus(g) ==
  IF ~g.hasUser
  THEN IF g.tg_free_gen THEN 402 ELSE 0
  ELSE IF canGenerate(g.user) = "monthly_limit" THEN 403
       ELSE IF canGenerate(g.user) = "upgrade" THEN 402
       ELSE 0

\* the request after getSession returned: rejected or on to the AI call
Gated(g) ==
  IF GateStatus(g) = 0
  THEN [g EXCEPT !.pc = "ai"]
  ELSE [g EXCEPT !.pc = "done", !.status = GateStatus(g)]

\* handleCors, isRateLimited, validation of the body, parseCookies; video
\* is whether the body has a videoId or a videoUrl
GenBegin(p) ==
  /\ gen[p].pc = "start"
  /\ \E admission \in GenAdmissions, credit, session, free, video \in BOOLEAN :
       gen' = [gen EXCEPT ![p] =
                 [@ EXCEPT !.pc = IF admission = 0 THEN "credit" ELSE "done",
                           !.status = admission,
                           !.video = video,
                           !.tg_credit = credit,
                           !.tg_session = session,
                           !.tg_free_gen = free,
                           !.before = [users |-> users,
                                       single_credits |-> single_credits]]]
  /\ UNCHANGED <<restVars, dbVars, payVars>>

\* if (cookies.tg_credit) { credit = await getSingleCredit(...) }; a failing
\* query is outside every try block and ends the request without a response
GenCredit(p) ==
  /\ gen[p].pc = "credit"
  /\ \E dbOk \in BOOLEAN :
       gen' = [gen EXCEPT ![p] =
                 IF ~gen[p].tg_credit THEN [@ EXCEPT !.pc = "session"]
                 ELSE IF ~dbOk THEN [@ EXCEPT !.pc = "done"]
                 ELSE IF getSingleCredit(single_credits)
                      THEN [@ EXCEPT !.pc = "ai", !.creditToken = TRUE]
                      ELSE [@ EXCEPT !.pc = "session"]]
  /\ UNCHANGED <<restVars, dbVars, payVars>>

\* user = await getSession(req): the SELECT; an exception leaves user null
GenSession(p) ==
  /\ gen[p].pc = "session"
  /\ \E dbOk \in BOOLEAN :
       gen' = [gen EXCEPT ![p] =
                 IF gen[p].tg_session /\ dbOk
                 THEN IF users.resetDue
                      THEN [@ EXCEPT !.pc = "reset", !.hasUser = TRUE,
                                     !.user = users]
                      ELSE Gated([@ EXCEPT !.hasUser = TRUE, !.user = users])
                 ELSE Gated(@)]
  /\ UNCHANGED <<restVars, dbVars, payVars>>

\* getSession: the auto-reset UPDATE and user.monthly_usage = 0; an exception
\* leaves the handler's user null
GenReset(p) ==
  /\ gen[p].pc = "reset"
  /\ \E dbOk \in BOOLEAN :
       IF dbOk
       THEN /\ users' = resetUsage(users)
            /\ gen' = [gen EXCEPT ![p] =
                         Gated([@ EXCEPT !.user.monthly_usage = 0])]
       ELSE /\ gen' = [gen EXCEPT ![p] = Gated([@ EXCEPT !.hasUser = FALSE])]
            /\ UNCHANGED users
  /\ UNCHANGED <<restVars, single_credits, processed_checkouts, payVars>>

\* the request answers: 200 with the content after a generation that
\* succeeded, the status of the failure otherwise
Answered(g) ==
  IF g.aiOk
  THEN [g EXCEPT !.pc = "done", !.status = 200, !.content = TRUE]
  ELSE [g EXCEPT !.pc = "done"]

\* result = await callGemini(...): it returns or throws (502 / 500); a
\* request with neither a credit token nor a user has nothing to consume and
\* nothing to save
GenAi(p) ==
  /\ gen[p].pc = "ai"
  /\ \E ok \in BOOLEAN, failure \in {502, 500} :
       gen' = [gen EXCEPT ![p] =
                 IF ConsumesAfter(ok)
                 THEN IF gen[p].creditToken \/ gen[p].hasUser
                      THEN [@ EXCEPT !.pc = "consume", !.aiOk = ok,
                                     !.status = IF ok THEN 0 ELSE failure]
                      ELSE Answered([@ EXCEPT !.aiOk = ok,
                                              !.status = failure])
                 ELSE [@ EXCEPT !.pc = "done", !.status = failure]]
  /\ UNCHANGED <<restVars, dbVars, payVars>>

\* await consumeSingleCredit(creditToken) or await consumeCredit(user),
\* failures logged only; a signed-in user's generation of a video is saved
\* next
GenConsume(p) ==
  /\ gen[p].pc = "consume"
  /\ \E dbOk \in BOOLEAN :
       /\ single_credits' = IF dbOk /\ gen[p].creditToken
                            THEN consumeSingleCredit(single_credits)
                            ELSE single_credits
       /\ users' = IF dbOk /\ ~gen[p].creditToken /\ gen[p].hasUser
                   THEN consumeCredit(users, gen[p].user)
                   ELSE users
  /\ gen' = [gen EXCEPT ![p] =
               IF gen[p].aiOk /\ gen[p].hasUser /\ gen[p].video
               THEN [@ EXCEPT !.pc = "save"]
               ELSE Answered(@)]
  /\ UNCHANGED <<restVars, processed_checkouts, payVars>>

\* await saveGeneration(user.id, ...): it writes generations only and its
\* failure is logged only; then res.status(200).json(result)
GenSave(p) ==
  /\ gen[p].pc = "save"
  /\ gen' = [gen EXCEPT ![p] = Answered(@)]
  /\ UNCHANGED <<restVars, dbVars, payVars>>

-----------------------------------------------------------------------------
(* The execute action of the schedule endpoint (api/schedule.js), called by  *)
(* QStash when a scheduled post is due                                       *)

\* what the actions of the later sections leave alone
coreVars == <<rateMap, now, pc, handlerVars, historyVars, wordVars, trackVars,
              aggVars, dbVars, payVars, gen>>

\* the upstash-signature header: absent; not of three parts; three parts with
\* a payload that does not parse; a parsed payload of another issuer; issuer
\* 'Upstash' but not signed by QStash; a signature QStash produced
Signatures ==
  {"missing", "garbage", "unparsable", "foreign", "forged", "qstash"}

\* the check of handleExecute: the header must be there, and with a signing
\* key configured a three-part header whose payload parses must name the
\* issuer 'Upstash'; everything else goes on
SignaturePasses(sig, key) ==
  /\ sig # "missing"
  /\ ~(key /\ sig = "foreign")

\* a row of post_status joined with its social connection
Posts ==
  [exists : BOOLEAN, status : {"scheduled", "posted", "failed"},
   access_token : BOOLEAN, expired : BOOLEAN,
   platform : {"twitter", "facebook", "other"}]

\* no row: what getScheduledPostById finds once the post is deleted
NoPost ==
  [exists |-> FALSE, status |-> "scheduled", access_token |-> FALSE,
   expired |-> FALSE, platform |-> "twitter"]

\* updatePostStatus(id, { status }): UPDATE post_status ... WHERE id
updatePostStatus(row, status) ==
  IF row.exists THEN [row EXCEPT !.status = status] ELSE row

\* deleteScheduledPost(id, userId): DELETE FROM post_status ... RETURNING
deleteScheduledPost(row) == NoPost

\* deleteSocialConnection(id, userId): the LEFT JOIN of getScheduledPostById
\* finds no connection, so no token, from then on
deleteSocialConnection(row) ==
  [row EXCEPT !.access_token = FALSE, !.expired = FALSE]

\* updateSocialTokens(id, accessToken, refreshToken, expiresAt): the
\* connection, if it is still there, holds a token that has not expired
updateSocialTokens(row) ==
  IF row.exists /\ row.access_token THEN [row EXCEPT !.expired = FALSE]
  ELSE row

\* upsertSocialConnection(userId, platform, data): ON CONFLICT (user_id,
\* platform) the tokens of the connection are replaced by new ones; after a
\* disconnect it inserts a connection with another id, which the post does
\* not refer to
upsertSocialConnection(row) == updateSocialTokens(row)

\* the concurrent invocations for the same post id
ExecProcs == {"exec1", "exec2"}

\* platform is the platform of the post the invocation read
ExecStart ==
  [pc |-> "start", sig |-> "missing", status |-> 0, acted |-> FALSE,
   platform |-> "twitter"]

\* what no step of an execute call changes
execFrame == <<coreVars, cronVars, sessVars, QSTASH_SIGNING_KEY, scheduling>>

\* parseInt(req.query.id), the upstash-signature header and its check
ExecBegin(p) ==
  /\ exec[p].pc = "start"
  /\ \E idOk \in BOOLEAN, sig \in Signatures :
       exec' = [exec EXCEPT ![p] =
                  IF ~idOk THEN [@ EXCEPT !.pc = "done", !.status = 400]
                  ELSE IF ~SignaturePasses(sig, QSTASH_SIGNING_KEY)
                       THEN [@ EXCEPT !.pc = "done", !.status = 401,
                                      !.sig = sig]
                       ELSE [@ EXCEPT !.pc = "read", !.sig = sig]]
  /\ UNCHANGED <<execFrame, post, published>>

\* if (platform === 'twitter') ... else if (platform === 'facebook') ... else
\* updatePostStatus 'failed': where the call goes once it has its token
AfterToken(platform) == IF platform = "other" THEN "markFailed" ELSE "publish"

\* post = await getScheduledPostById(id) and the tests on the row it
\* returned, up to the next await
ExecRead(p) ==
  /\ exec[p].pc = "read"
  /\ \E dbOk \in BOOLEAN :
       exec' = [exec EXCEPT ![p] =
                  IF ~dbOk THEN [@ EXCEPT !.pc = "catch"]
                  ELSE IF ~post.exists
                       THEN [@ EXCEPT !.pc = "done", !.status = 404]
                  ELSE IF post.status # "scheduled"
                       THEN [@ EXCEPT !.pc = "done", !.status = 200]
                  ELSE IF ~post.access_token
                       THEN [@ EXCEPT !.pc = "markFailed"]
                  ELSE IF post.expired
                       THEN [@ EXCEPT !.pc = "refresh",
                                      !.platform = post.platform]
                  ELSE [@ EXCEPT !.pc = AfterToken(post.platform),
                                 !.platform = post.platform]]
  /\ UNCHANGED <<execFrame, post, published>>

\* refreshTwitterToken: await fetch(.../2/oauth2/token); a rejection and a
\* status that is not ok throw
ExecRefresh(p) ==
  /\ exec[p].pc = "refresh"
  /\ \E ok \in BOOLEAN :
       exec' = [exec EXCEPT ![p] =
                  [@ EXCEPT !.pc = IF ok THEN "refreshBody"
                                   ELSE "markFailed"]]
  /\ UNCHANGED <<execFrame, post, published>>

\* refreshTwitterToken: const tokens = await tokenRes.json()
ExecRefreshBody(p) ==
  /\ exec[p].pc = "refreshBody"
  /\ \E ok \in BOOLEAN :
       exec' = [exec EXCEPT ![p] =
                  [@ EXCEPT !.pc = IF ok THEN "refreshSave"
                                   ELSE "markFailed"]]
  /\ UNCHANGED <<execFrame, post, published>>

\* refreshTwitterToken: await updateSocialTokens(...); then the platform of
\* the post that was read
ExecRefreshSave(p) ==
  /\ exec[p].pc = "refreshSave"
  /\ \E dbOk \in BOOLEAN :
       IF dbOk
       THEN /\ post' = updateSocialTokens(post)
            /\ exec' = [exec EXCEPT ![p] =
                          [@ EXCEPT !.pc = AfterToken(exec[p].platform)]]
       ELSE /\ exec' = [exec EXCEPT ![p] = [@ EXCEPT !.pc = "markFailed"]]
            /\ UNCHANGED post
  /\ UNCHANGED <<execFrame, published>>

\* await updatePostStatus(id, { status: 'failed', ... }) on a disconnected
\* account, a failed refresh or an unsupported platform; answers 200
ExecMarkFailed(p) ==
  /\ exec[p].pc = "markFailed"
  /\ \E dbOk \in BOOLEAN :
       IF dbOk
       THEN /\ post' = updatePostStatus(post, "failed")
            /\ exec' = [exec EXCEPT ![p] =
                          [@ EXCEPT !.pc = "done", !.status = 200,
                                    !.acted = post.exists \/ @]]
       ELSE /\ exec' = [exec EXCEPT ![p] = [@ EXCEPT !.pc = "catch"]]
            /\ UNCHANGED post
  /\ UNCHANGED <<execFrame, published>>

\* how the platform answers the request that publishes
PublishAnswers == {"network_error", "http_error", "ok"}

\* postToTwitter / postToFacebook: await fetch(...), the request to the
\* platform
ExecPublish(p) ==
  /\ exec[p].pc = "publish"
  /\ \E k \in PublishAnswers :
       IF k = "ok"
       THEN /\ published' = published + 1
            /\ exec' = [exec EXCEPT ![p] =
                          [@ EXCEPT !.pc = "publishBody", !.acted = TRUE]]
       ELSE /\ exec' = [exec EXCEPT ![p] =
                          [@ EXCEPT !.pc = IF k = "http_error"
                                           THEN "publishError"
                                           ELSE "catch"]]
            /\ UNCHANGED published
  /\ UNCHANGED <<execFrame, post>>

\* const errText = await tweetRes.text(); throw new Error(...)
ExecPublishError(p) ==
  /\ exec[p].pc = "publishError"
  /\ exec' = [exec EXCEPT ![p] = [@ EXCEPT !.pc = "catch"]]
  /\ UNCHANGED <<execFrame, post, published>>

\* const tweetData = await tweetRes.json(), which may reject
ExecPublishBody(p) ==
  /\ exec[p].pc = "publishBody"
  /\ \E ok \in BOOLEAN :
       exec' = [exec EXCEPT ![p] =
                  [@ EXCEPT !.pc = IF ok THEN "record" ELSE "catch"]]
  /\ UNCHANGED <<execFrame, post, published>>

\* postToTwitter / postToFacebook: updatePostStatus(postId, { status:
\* 'posted', ... }); answers 200
ExecRecord(p) ==
  /\ exec[p].pc = "record"
  /\ \E dbOk \in BOOLEAN :
       IF dbOk
       THEN /\ post' = updatePostStatus(post, "posted")
            /\ exec' = [exec EXCEPT ![p] =
                          [@ EXCEPT !.pc = "done", !.status = 200]]
       ELSE /\ exec' = [exec EXCEPT ![p] = [@ EXCEPT !.pc = "catch"]]
            /\ UNCHANGED post
  /\ UNCHANGED <<execFrame, published>>

\* catch (err): updatePostStatus(id, { status: 'failed' }) at best effort,
\* then 500
ExecCatch(p) ==
  /\ exec[p].pc = "catch"
  /\ \E dbOk \in BOOLEAN :
       IF dbOk
       THEN /\ post' = updatePostStatus(post, "failed")
            /\ exec' = [exec EXCEPT ![p] =
                          [@ EXCEPT !.pc = "done", !.status = 500,
                                    !.acted = post.exists \/ @]]
       ELSE /\ exec' = [exec EXCEPT ![p] =
                          [@ EXCEPT !.pc = "done", !.status = 500]]
            /\ UNCHANGED post
  /\ UNCHANGED <<execFrame, published>>

\* what the owner's requests leave alone
ownerFrame == <<coreVars, cronVars, sessVars, exec, published,
                QSTASH_SIGNING_KEY>>

\* DELETE /api/schedule?id=: const deleted = await deleteScheduledPost(id,
\* user.id) of the signed-in owner
CancelPost ==
  /\ pc = "execute"
  /\ post.exists
  /\ post' = deleteScheduledPost(post)
  /\ UNCHANGED <<ownerFrame, scheduling>>

\* DELETE /api/social?id=: await deleteSocialConnection(id, user.id)
Disconnect ==
  /\ pc = "execute"
  /\ post.exists /\ post.access_token
  /\ post' = deleteSocialConnection(post)
  /\ UNCHANGED <<ownerFrame, scheduling>>

\* the OAuth callback of an account that is connected: await
\* upsertSocialConnection(user.id, platform, { ... })
Reconnect ==
  /\ pc = "execute"
  /\ post.exists /\ post.access_token /\ post.expired
  /\ post' = upsertSocialConnection(post)
  /\ UNCHANGED <<ownerFrame, scheduling>>

\* POST /api/schedule, after createScheduledPost and the QStash publish:
\* await updatePostStatus(post.id, { status: 'scheduled', qstashMessageId })
ScheduleConfirm ==
  /\ pc = "execute"
  /\ scheduling
  /\ scheduling' = FALSE
  /\ post' = updatePostStatus(post, "scheduled")
  /\ UNCHANGED ownerFrame

\* no execute call is running
ExecIdle ==
  /\ post = NoPost
  /\ exec = <<>>
  /\ published = 0
  /\ QSTASH_SIGNING_KEY = FALSE
  /\ scheduling = FALSE

-----------------------------------------------------------------------------
(* Sessions: getSession (api/_db.js), logout (api/auth/logout.js) and the    *)
(* cleanup of expired sessions (api/cron/cleanup.js, api/auth/me.js)         *)

\* days the model's clock runs
MaxClock == 4

\* the monthly usage of the signed-in user whose period has ended
SessUsage == 3

\* the tg_session cookie of a request: the token issued, a string that is
\* not 64 characters long, a 64-character string no row has
SessionTokens == {"issued", "short", "unknown"}

\* if (!token || token.length !== 64)
WellFormedToken(token) == token # "short"

\* getSession: WHERE s.id = ${token} AND s.expires_at > NOW()
SessionFound(row, token, t) ==
  /\ token = "issued"
  /\ row.exists
  /\ row.expires_at > t

\* DELETE FROM sessions WHERE expires_at < NOW()
SessionExpired(row, t) == row.expires_at < t

NoSessLog ==
  [loggedOut |-> FALSE, lookups |-> 0, signedIn |-> FALSE,
   afterLogout |-> FALSE, afterExpiry |-> FALSE, removedLive |-> FALSE]

\* no lookup and no cleanup is under way; afterLogout and afterExpiry are
\* what held when the lookup under way ran its SELECT
NoSess ==
  [lookup |-> "idle", afterLogout |-> FALSE, afterExpiry |-> FALSE,
   cleanup |-> "idle", lazy |-> "idle"]

\* what the session functions leave alone
sessRest == <<rateMap, now, pc, handlerVars, historyVars, wordVars, trackVars,
              aggVars, processed_checkouts, payVars, gen, cronVars, execVars>>

\* getSession returned to its caller: the request is treated as signed in
\* exactly when it returned a user
Returned(log, found, afterLogout, afterExpiry) ==
  [log EXCEPT !.lookups = IF @ < 2 THEN @ + 1 ELSE @,
              !.signedIn = found,
              !.afterLogout = @ \/ (found /\ afterLogout),
              !.afterExpiry = @ \/ (found /\ afterExpiry)]

\* user = await getSession(req) of any endpoint: the cookie and the SELECT; a
\* failing query throws and the request is not signed in; the user whose
\* usage_reset_at has passed is reset next
SessLookup ==
  /\ pc = "sessions"
  /\ sess.lookup = "idle"
  /\ \E token \in SessionTokens, dbOk \in BOOLEAN :
       LET found == /\ WellFormedToken(token)
                    /\ dbOk
                    /\ SessionFound(sessions, token, clock)
       IN  IF found /\ users.resetDue
           THEN /\ sess' = [sess EXCEPT
                              !.lookup = "reset",
                              !.afterLogout = sessLog.loggedOut,
                              !.afterExpiry = sessions.expires_at <= clock]
                /\ UNCHANGED sessLog
           ELSE /\ sessLog' = Returned(sessLog, found, sessLog.loggedOut,
                                       sessions.expires_at <= clock)
                /\ UNCHANGED sess
  /\ UNCHANGED <<sessRest, dbVars, sessions, clock>>

\* getSession: the auto-reset UPDATE and return user; a failing statement
\* throws and the request is not signed in
SessReset ==
  /\ pc = "sessions"
  /\ sess.lookup = "reset"
  /\ \E dbOk \in BOOLEAN :
       /\ users' = IF dbOk THEN resetUsage(users) ELSE users
       /\ sessLog' = Returned(sessLog, dbOk, sess.afterLogout,
                              sess.afterExpiry)
  /\ sess' = [sess EXCEPT !.lookup = "idle", !.afterLogout = FALSE,
                          !.afterExpiry = FALSE]
  /\ UNCHANGED <<sessRest, single_credits, sessions, clock>>

\* POST /api/auth/logout: DELETE FROM sessions WHERE id = ${token}; the
\* answer is 200 { ok: true } whether or not the statement failed
SessLogout ==
  /\ pc = "sessions"
  /\ \E token \in SessionTokens, dbOk \in BOOLEAN :
       /\ sessions' = IF WellFormedToken(token) /\ dbOk /\ token = "issued"
                      THEN [sessions EXCEPT !.exists = FALSE]
                      ELSE sessions
       /\ sessLog' = [sessLog EXCEPT
                        !.loggedOut = @ \/ token = "issued"]
  /\ UNCHANGED <<sessRest, dbVars, clock, sess>>

\* DELETE FROM sessions WHERE expires_at < NOW()
deleteExpiredSessions(row, t) ==
  IF row.exists /\ SessionExpired(row, t)
  THEN [row EXCEPT !.exists = FALSE]
  ELSE row

\* history: a cleanup removed a session that had not expired
RemovedLive(log, row, t) ==
  [log EXCEPT !.removedLive =
                 @ \/ (deleteExpiredSessions(row, t) # row
                         /\ row.expires_at > t)]

\* days a single credit is kept
CREDIT_DAYS == 7

\* created_at < NOW() - INTERVAL '7 days'
CreditOld(row, t) == row.created_at < t - CREDIT_DAYS

\* cleanup.js: DELETE FROM single_credits WHERE created_at < NOW() - ...
deleteOldCredits(row, t) ==
  IF row.exists /\ CreditOld(row, t)
  THEN [row EXCEPT !.exists = FALSE]
  ELSE row

\* me.js: DELETE FROM single_credits WHERE used = TRUE AND created_at < ...
deleteOldUsedCredits(row, t) ==
  IF row.exists /\ row.used /\ CreditOld(row, t)
  THEN [row EXCEPT !.exists = FALSE]
  ELSE row

\* the cleanup cron: the authorization header, then await sql`DELETE FROM
\* sessions ...`; a failing statement is answered 500
SessCleanup ==
  /\ pc = "sessions"
  /\ sess.cleanup = "idle"
  /\ \E authorized, dbOk \in BOOLEAN :
       IF authorized /\ dbOk
       THEN /\ sessions' = deleteExpiredSessions(sessions, clock)
            /\ sessLog' = RemovedLive(sessLog, sessions, clock)
            /\ sess' = [sess EXCEPT !.cleanup = "credits"]
       ELSE UNCHANGED <<sessions, sessLog, sess>>
  /\ UNCHANGED <<sessRest, dbVars, clock>>

\* the cleanup cron: await sql`DELETE FROM single_credits ...`, then the
\* answer
SessCleanupCredits ==
  /\ pc = "sessions"
  /\ sess.cleanup = "credits"
  /\ \E dbOk \in BOOLEAN :
       single_credits' = IF dbOk THEN deleteOldCredits(single_credits, clock)
                         ELSE single_credits
  /\ sess' = [sess EXCEPT !.cleanup = "idle"]
  /\ UNCHANGED <<sessRest, users, processed_checkouts, sessions, clock,
                 sessLog>>

\* the lazy cleanup of GET /api/auth/me, on about one request in fifty:
\* await sql`DELETE FROM sessions ...`; a failure is swallowed
SessLazy ==
  /\ pc = "sessions"
  /\ sess.lazy = "idle"
  /\ \E dbOk \in BOOLEAN :
       IF dbOk
       THEN /\ sessions' = deleteExpiredSessions(sessions, clock)
            /\ sessLog' = RemovedLive(sessLog, sessions, clock)
            /\ sess' = [sess EXCEPT !.lazy = "credits"]
       ELSE UNCHANGED <<sessions, sessLog, sess>>
  /\ UNCHANGED <<sessRest, dbVars, clock>>

\* the lazy cleanup: await sql`DELETE FROM single_credits WHERE used = TRUE
\* AND ...`
SessLazyCredits ==
  /\ pc = "sessions"
  /\ sess.lazy = "credits"
  /\ \E dbOk \in BOOLEAN :
       single_credits' = IF dbOk
                         THEN deleteOldUsedCredits(single_credits, clock)
                         ELSE single_credits
  /\ sess' = [sess EXCEPT !.lazy = "idle"]
  /\ UNCHANGED <<sessRest, users, processed_checkouts, sessions, clock,
                 sessLog>>

\* a day passes
SessTick ==
  /\ pc = "sessions"
  /\ clock < MaxClock
  /\ clock' = clock + 1
  /\ UNCHANGED <<sessRest, dbVars, sessions, sessLog, sess>>

\* no session is under observation
SessIdle ==
  /\ sessions = [exists |-> FALSE, expires_at |-> 0]
  /\ clock = 0
  /\ sessLog = NoSessLog
  /\ sess = NoSess

-----------------------------------------------------------------------------
(* The hourly channel cron (api/cron/channels.js)                            *)

MAX_NEW_PER_CHANNEL == 5

\* videos the channel uploads in the model
MaxVideos == 6

\* what neither the cron nor a request to /api/channel touches
channelRest == <<rateMap, now, pc, handlerVars, historyVars, wordVars,
                 trackVars, aggVars, single_credits, processed_checkouts,
                 payVars, gen, execVars, sessVars>>

\* what the cron leaves alone besides the row of users
cronRest == <<channelRest, channelReq>>

\* currentVideos.filter(v => !knownSet.has(v.videoId)) of a page that lists
\* the videos 1 .. n
NewVideos(n, known) ==
  SelectSeq([k \in 1 .. n |-> k], LAMBDA v : v \notin known)

\* const allKnown = [...new Set([...currentIds, ...knownSet])]
AllKnown(currentIds, knownSet) == currentIds \cup knownSet

\* newVideos.slice(0, MAX_NEW_PER_CHANNEL)
ToProcess(newVideos) ==
  SubSeq(newVideos, 1,
         IF Len(newVideos) < MAX_NEW_PER_CHANNEL THEN Len(newVideos)
         ELSE MAX_NEW_PER_CHANNEL)

\* runs of the cron the model follows
MaxRuns == 2

\* no run: id, urlOk and formats are the channel row the run selected, n
\* the number of videos the page listed, user the row getUserById returned,
\* runs the number of runs so far
CronIdleRun ==
  [pc |-> "idle", id |-> 0, urlOk |-> TRUE, formats |-> TRUE, n |-> 0,
   toProcess |-> <<>>, i |-> 0, knownSet |-> {},
   user |-> User("pro", 0, 0, FALSE), runs |-> 0]

\* processChannel has returned or thrown
Ended(c) == [CronIdleRun EXCEPT !.runs = c.runs]

\* requests to /api/channel the model serves
MaxRequests == 1

\* createLinkedChannel(userId, url, ..., knownIds): INSERT ... ON CONFLICT
\* (user_id) DO UPDATE SET ..., known_video_ids, enabled = TRUE; the url has
\* passed the patterns of the endpoint
createLinkedChannel(row, knownIds) ==
  [row EXCEPT !.exists = TRUE,
              !.id = IF row.exists THEN @ ELSE @ + 1,
              !.enabled = TRUE, !.urlOk = TRUE, !.known = knownIds]

\* updateLinkedChannel(userId, fields): UPDATE ... SET enabled when
\* fields.enabled is defined; default_formats is no field of the model's row
updateLinkedChannel(row, fields) ==
  IF row.exists /\ "enabled" \in DOMAIN fields
  THEN [row EXCEPT !.enabled = fields.enabled]
  ELSE row

\* deleteLinkedChannel(userId): DELETE FROM linked_channels
deleteLinkedChannel(row) ==
  [row EXCEPT !.exists = FALSE, !.enabled = FALSE, !.known = {}]

\* markChannelChecked(channelId, newKnownIds): UPDATE ... WHERE id
markChannelChecked(row, channelId, newKnownIds) ==
  IF row.exists /\ row.id = channelId
  THEN [row EXCEPT !.known = newKnownIds]
  ELSE row

\* getAllEnabledChannels: WHERE lc.enabled = TRUE AND u.tier = 'pro'
Selected(row, user) == row.exists /\ row.enabled /\ user.tier = "pro"

\* the channel uploads a video
Upload ==
  /\ pc = "cron"
  /\ channel.uploaded < MaxVideos
  /\ channel' = [channel EXCEPT !.uploaded = @ + 1]
  /\ UNCHANGED <<cronRest, users, cron, attempted>>

\* customer.subscription.deleted: downgradeUser sets the tier to 'free'
Downgrade ==
  /\ pc = "cron"
  /\ users.tier = "pro"
  /\ users' = downgradeUser(users, Subscription.id)
  /\ UNCHANGED <<cronRest, cronVars>>

\* req of /api/channel: the method and what the body holds. POST: a channel
\* URL and formats that pass ("ok") or not ("bad"); PUT: no field
\* ("nothing"), formats of which none is valid ("no_valid_format"), valid
\* formats alone ("formats"), enabled true or false
ChannelRequests ==
  [method : {"GET", "DELETE", "PATCH"}, body : {"nothing"}]
    \cup [method : {"POST"}, body : {"ok", "bad"}]
    \cup [method : {"PUT"},
          body : {"nothing", "no_valid_format", "formats", "enable",
                  "disable"}]

\* no request to /api/channel is under way; tier is user.tier of the row
\* getSession read, listed the number of videos the page listed, requests
\* the number of requests so far
NoChannelReq ==
  [pc |-> "idle", method |-> "GET", body |-> "nothing", tier |-> "pro",
   listed |-> 0, requests |-> 0]

\* the handler has answered, or getSession has thrown
ChannelAnswered(r) == [NoChannelReq EXCEPT !.requests = r.requests]

\* const fields = {} and what the PUT body adds to it
PutFields(body) ==
  CASE body = "formats" -> [default_formats |-> TRUE]
    [] body = "enable" -> [enabled |-> TRUE]
    [] body = "disable" -> [enabled |-> FALSE]
    [] OTHER -> [k \in {} |-> TRUE]

\* the handler from the user getSession returned to its next await: 402 for
\* a user who is not Pro, 400 for a POST body that does not pass, 405 for a
\* method it does not serve
ChannelGate(r, tier) ==
  IF tier # "pro" THEN ChannelAnswered(r)
  ELSE CASE r.method = "POST" ->
              IF r.body = "ok" THEN [r EXCEPT !.pc = "resolve"]
              ELSE ChannelAnswered(r)
         [] r.method = "DELETE" -> [r EXCEPT !.pc = "delete"]
         [] r.method \in {"GET", "PUT"} -> [r EXCEPT !.pc = "get"]
         [] OTHER -> ChannelAnswered(r)

\* a request to /api/channel: user = await getSession(req), the SELECT; no
\* user is answered 401, the user whose usage_reset_at has passed is reset
\* next
ChannelSession ==
  /\ pc = "cron"
  /\ channelReq.pc = "idle"
  /\ channelReq.requests < MaxRequests
  /\ \E r \in ChannelRequests, found \in BOOLEAN :
       LET begun == [channelReq EXCEPT !.method = r.method, !.body = r.body,
                                       !.requests = @ + 1]
       IN  channelReq' =
             IF ~found THEN ChannelAnswered(begun)
             ELSE IF users.resetDue
             THEN [begun EXCEPT !.pc = "reset", !.tier = users.tier]
             ELSE ChannelGate(begun, users.tier)
  /\ UNCHANGED <<channelRest, users, channel, cron, attempted>>

\* getSession: the auto-reset UPDATE, then the tier of the row the SELECT
\* read; a failing statement throws out of the handler
ChannelReset ==
  /\ pc = "cron"
  /\ channelReq.pc = "reset"
  /\ \E dbOk \in BOOLEAN :
       IF dbOk
       THEN /\ users' = resetUsage(users)
            /\ channelReq' = ChannelGate(channelReq, channelReq.tier)
       ELSE /\ channelReq' = ChannelAnswered(channelReq)
            /\ UNCHANGED users
  /\ UNCHANGED <<channelRest, channel, cron, attempted>>

\* POST: resolveChannel, await fetch(channelUrl); a rejection and a status
\* that is not ok throw, which the handler's catch answers 500
ChannelResolve ==
  /\ pc = "cron"
  /\ channelReq.pc = "resolve"
  /\ \E ok \in BOOLEAN :
       channelReq' = IF ok
                     THEN [channelReq EXCEPT !.pc = "resolveBody",
                                             !.listed = channel.uploaded]
                     ELSE ChannelAnswered(channelReq)
  /\ UNCHANGED <<channelRest, users, channel, cron, attempted>>

\* POST: resolveChannel, await response.text(); then knownIds
ChannelResolveBody ==
  /\ pc = "cron"
  /\ channelReq.pc = "resolveBody"
  /\ \E ok \in BOOLEAN :
       channelReq' = IF ok THEN [channelReq EXCEPT !.pc = "create"]
                     ELSE ChannelAnswered(channelReq)
  /\ UNCHANGED <<channelRest, users, channel, cron, attempted>>

\* POST: await createLinkedChannel(...) with the ids of the videos the page
\* listed, then the answer
LinkChannel ==
  /\ pc = "cron"
  /\ channelReq.pc = "create"
  /\ \E dbOk \in BOOLEAN :
       channel' = IF dbOk
                  THEN createLinkedChannel(channel, 1 .. channelReq.listed)
                  ELSE channel
  /\ channelReq' = ChannelAnswered(channelReq)
  /\ UNCHANGED <<channelRest, users, cron, attempted>>

\* GET and PUT: await getLinkedChannel(user.id); GET answers; PUT answers
\* 404 without a row and 400 without a field to update
ChannelGet ==
  /\ pc = "cron"
  /\ channelReq.pc = "get"
  /\ \E dbOk \in BOOLEAN :
       channelReq' =
         IF /\ dbOk
            /\ channelReq.method = "PUT"
            /\ channel.exists
            /\ channelReq.body # "no_valid_format"
            /\ DOMAIN PutFields(channelReq.body) # {}
         THEN [channelReq EXCEPT !.pc = "update"]
         ELSE ChannelAnswered(channelReq)
  /\ UNCHANGED <<channelRest, users, channel, cron, attempted>>

\* PUT: await updateLinkedChannel(user.id, fields)
UpdateChannel ==
  /\ pc = "cron"
  /\ channelReq.pc = "update"
  /\ \E dbOk \in BOOLEAN :
       IF dbOk
       THEN /\ channel' = updateLinkedChannel(channel,
                                              PutFields(channelReq.body))
            /\ channelReq' = [channelReq EXCEPT !.pc = "updated"]
       ELSE /\ channelReq' = ChannelAnswered(channelReq)
            /\ UNCHANGED channel
  /\ UNCHANGED <<channelRest, users, cron, attempted>>

\* PUT: const updated = await getLinkedChannel(user.id), then the answer
ChannelUpdated ==
  /\ pc = "cron"
  /\ channelReq.pc = "updated"
  /\ channelReq' = ChannelAnswered(channelReq)
  /\ UNCHANGED <<channelRest, users, channel, cron, attempted>>

\* DELETE: await deleteLinkedChannel(user.id), then the answer
UnlinkChannel ==
  /\ pc = "cron"
  /\ channelReq.pc = "delete"
  /\ \E dbOk \in BOOLEAN :
       channel' = IF dbOk THEN deleteLinkedChannel(channel) ELSE channel
  /\ channelReq' = ChannelAnswered(channelReq)
  /\ UNCHANGED <<channelRest, users, cron, attempted>>

\* handler: the authorization header and await getAllEnabledChannels(); then
\* processChannel up to its first await: the channel URL
CronBegin ==
  /\ pc = "cron"
  /\ cron.pc = "idle"
  /\ cron.runs < MaxRuns
  /\ \E authorized, dbOk, formats \in BOOLEAN :
       cron' =
         IF ~authorized \/ ~dbOk \/ ~Selected(channel, users) THEN cron
         ELSE [CronIdleRun EXCEPT
                 !.runs = cron.runs + 1,
                 !.pc = IF channel.urlOk THEN "resolve" ELSE "finish",
                 !.id = channel.id, !.urlOk = channel.urlOk,
                 !.formats = formats, !.i = 1,
                 !.knownSet = channel.known]
  /\ UNCHANGED <<cronRest, users, channel, attempted>>

\* resolveChannel: await fetch(channelUrl); a rejection and a status that is
\* not ok throw, which ends the run for the channel
CronResolve ==
  /\ pc = "cron"
  /\ cron.pc = "resolve"
  /\ \E ok \in BOOLEAN :
       cron' = IF ok
               THEN [cron EXCEPT !.pc = "resolveBody", !.n = channel.uploaded]
               ELSE Ended(cron)
  /\ UNCHANGED <<cronRest, users, channel, attempted>>

\* for (const video of toProcess): the loop goes on to its next video or ends
LoopHead(c) ==
  [c EXCEPT !.pc = IF c.i > Len(c.toProcess) THEN "finish" ELSE "getUser"]

\* resolveChannel: await response.text(); then the new videos and the first
\* five of them
CronResolveBody ==
  /\ pc = "cron"
  /\ cron.pc = "resolveBody"
  /\ \E ok \in BOOLEAN :
       cron' = IF ok
               THEN LoopHead([cron EXCEPT
                                !.toProcess =
                                   ToProcess(NewVideos(cron.n, cron.knownSet))])
               ELSE Ended(cron)
  /\ UNCHANGED <<cronRest, users, channel, attempted>>

\* knownSet.add(video.videoId); continue
Skipped(c) ==
  LoopHead([c EXCEPT !.knownSet = @ \cup {c.toProcess[c.i]}, !.i = @ + 1])

\* canGenerate(user), and fetchTranscript when no key is configured
Checked(c) ==
  IF canGenerate(c.user) # Absent THEN [c EXCEPT !.pc = "finish"]
  ELSE IF ~SUPADATA_KEY THEN Skipped(c)
  ELSE [c EXCEPT !.pc = "transcript"]

\* the videos attempted once the run is at c: the one it has passed the
\* limit check for
Attempted(c) ==
  IF canGenerate(c.user) # Absent THEN attempted
  ELSE attempted \cup {c.toProcess[c.i]}

\* let user = await getUserById(ch.user_id); a failing query ends the run for
\* the channel, a user who is not Pro ends the loop
CronGetUser ==
  /\ pc = "cron"
  /\ cron.pc = "getUser"
  /\ \E dbOk \in BOOLEAN :
       IF ~dbOk
       THEN /\ cron' = Ended(cron)
            /\ attempted' = {}
       ELSE IF users.tier # "pro"
       THEN /\ cron' = [cron EXCEPT !.pc = "finish", !.user = users]
            /\ UNCHANGED attempted
       ELSE IF users.resetDue
       THEN /\ cron' = [cron EXCEPT !.pc = "refresh", !.user = users]
            /\ UNCHANGED attempted
       ELSE /\ cron' = Checked([cron EXCEPT !.user = users])
            /\ attempted' = Attempted([cron EXCEPT !.user = users])
  /\ UNCHANGED <<cronRest, users, channel>>

\* user = await refreshUsage(user): the UPDATE of a user whose usage_reset_at
\* has passed and user.monthly_usage = 0
CronRefresh ==
  /\ pc = "cron"
  /\ cron.pc = "refresh"
  /\ \E dbOk \in BOOLEAN :
       IF ~dbOk
       THEN /\ cron' = Ended(cron)
            /\ attempted' = {}
            /\ UNCHANGED users
       ELSE /\ users' = resetUsage(users)
            /\ cron' = Checked([cron EXCEPT !.user.monthly_usage = 0])
            /\ attempted' = Attempted([cron EXCEPT !.user.monthly_usage = 0])
  /\ UNCHANGED <<cronRest, channel>>

\* fetchTranscript: await fetch(api.supadata.ai/...); a rejection and a status
\* that is not ok return null
CronTranscript ==
  /\ pc = "cron"
  /\ cron.pc = "transcript"
  /\ \E ok \in BOOLEAN :
       cron' = IF ok THEN [cron EXCEPT !.pc = "transcriptBody"]
               ELSE Skipped(cron)
  /\ UNCHANGED <<cronRest, users, channel, attempted>>

\* fetchTranscript: await res.json(); no segments return null; then the
\* prompts of the channel's formats
CronTranscriptBody ==
  /\ pc = "cron"
  /\ cron.pc = "transcriptBody"
  /\ \E transcript \in BOOLEAN :
       cron' = IF transcript /\ cron.formats THEN [cron EXCEPT !.pc = "ai"]
               ELSE Skipped(cron)
  /\ UNCHANGED <<cronRest, users, channel, attempted>>

\* result = await callGemini(...); an exception is caught: the video is
\* marked known and the loop goes on
CronAi ==
  /\ pc = "cron"
  /\ cron.pc = "ai"
  /\ \E ok \in BOOLEAN :
       cron' = IF ok THEN [cron EXCEPT !.pc = "save"] ELSE Skipped(cron)
  /\ UNCHANGED <<cronRest, users, channel, attempted>>

\* how await saveAutoGeneration(...) ends: an exception, no row because the
\* user has a generation of the video, the row inserted
SaveOutcomes == {"failed", "duplicate", "saved"}

\* const saved = await saveAutoGeneration(...)
CronSave ==
  /\ pc = "cron"
  /\ cron.pc = "save"
  /\ \E outcome \in SaveOutcomes :
       cron' = CASE outcome = "failed" -> Skipped(cron)
                 [] outcome = "duplicate" ->
                      [cron EXCEPT !.pc = "sleep",
                                   !.knownSet = @ \cup {cron.toProcess[cron.i]}]
                 [] OTHER -> [cron EXCEPT !.pc = "consume"]
  /\ UNCHANGED <<cronRest, users, channel, attempted>>

\* await consumeCredit(user), with the user the turn read
CronConsume ==
  /\ pc = "cron"
  /\ cron.pc = "consume"
  /\ \E dbOk \in BOOLEAN :
       IF dbOk
       THEN /\ users' = consumeCredit(users, cron.user)
            /\ cron' = [cron EXCEPT
                          !.pc = "sleep",
                          !.knownSet = @ \cup {cron.toProcess[cron.i]}]
       ELSE /\ cron' = Skipped(cron)
            /\ UNCHANGED users
  /\ UNCHANGED <<cronRest, channel, attempted>>

\* await new Promise(r => setTimeout(r, 500)), then the next video
CronSleep ==
  /\ pc = "cron"
  /\ cron.pc = "sleep"
  /\ cron' = LoopHead([cron EXCEPT !.i = @ + 1])
  /\ UNCHANGED <<cronRest, users, channel, attempted>>

\* await markChannelChecked(ch.id, ...): the list the run read for a channel
\* without videos URL, allKnown after the loop
CronFinish ==
  /\ pc = "cron"
  /\ cron.pc = "finish"
  /\ \E dbOk \in BOOLEAN :
       channel' = IF dbOk
                  THEN markChannelChecked(channel, cron.id,
                                          AllKnown(1 .. cron.n, cron.knownSet))
                  ELSE channel
  /\ cron' = Ended(cron)
  /\ attempted' = {}
  /\ UNCHANGED <<cronRest, users>>

\* no cron run is under observation
CronIdle ==
  /\ channel = [exists |-> FALSE, id |-> 0, enabled |-> FALSE, urlOk |-> TRUE,
                uploaded |-> 0, known |-> {}]
  /\ cron = CronIdleRun
  /\ attempted = {}
  /\ channelReq = NoChannelReq

\* nothing is going on in the later sections
LateIdle == ExecIdle /\ SessIdle /\ CronIdle

\* no payment handler and no generate request is running
DbIdle ==
  /\ users = User("free", 0, 0, FALSE)
  /\ single_credits = NewCredit
  /\ processed_checkouts = {}
  /\ checkout = NoCheckout
  /\ pay = [p \in Webhooks \cup Redirects |-> "done"]
  /\ gen = <<>>
  /\ granted = 0

\* nothing is going on in the functions specified on their own
ExtraIdle == TrackIdle /\ AggIdle /\ DbIdle /\ LateIdle


\* rate-limit entries a running instance can hold for ip1 when the request
\* arrives: none, a used-up window that is still open, a used-up window that
\* is over
InitialRateMaps ==
  {[k \in {} |-> 0]}
    \cup {[k \in {"ip1"} |-> [count |-> RATE_LIMIT, resetAt |-> r]] :
            r \in {RATE_WINDOW, 2 * RATE_WINDOW}}

Init ==
  /\ rev \in Revisions
  /\ ASSEMBLYAI_KEY \in BOOLEAN
  /\ stripe \in BOOLEAN
  /\ req \in Requests
  /\ pc = "start"
  /\ rateMap \in InitialRateMaps
  /\ now = RATE_WINDOW + 1
  /\ attempts = <<>>
  /\ lastOutcome = NoOutcome
  /\ calls = NoCalls
  /\ response = NoResponse
  /\ responses = 0
  /\ transcriptId = Absent
  /\ startTime = 0
  /\ lastPoll = "none"
  /\ awaiting = "none"
  /\ parsed = <<>>
  /\ fetchMs \in FetchTimes
  /\ window = [k \in IPs |-> NoWindow]
  /\ verdict = [k \in IPs |-> FALSE]
  /\ words = <<>>
  /\ fullText = <<>>
  /\ segments = <<>>
  /\ currentSeg = NoSeg
  /\ wordIndex = 0
  /\ ExtraIdle

Next ==
  \/ Receive
  \/ VerifyPayment
  \/ GetVideoDetails
  \/ GetTranscriptFetch
  \/ GetTranscriptJson
  \/ \E s \in TrackStrategies : TrackListFetch(s)
  \/ \E s \in TrackStrategies : TrackListBody(s)
  \/ \E s \in TrackStrategies : CaptionFetch(s)
  \/ \E s \in TrackStrategies : CaptionJson(s)
  \/ TitleFetch
  \/ TitleJson
  \/ AudioFetch
  \/ AudioJson
  \/ SubmitFetch
  \/ SubmitErrorJson
  \/ SubmitJson
  \/ SttSleep
  \/ PollFetch
  \/ PollJson

Spec == Init /\ [][Next]_vars

-----------------------------------------------------------------------------
(* The rate limiter on its own: calls of isRateLimited from each key, the    *)
(* clock, and the cleanup timer                                              *)

\* the handler is not running
Idle ==
  /\ rev = "extractor"
  /\ ASSEMBLYAI_KEY = FALSE
  /\ stripe = FALSE
  /\ req = Req("GET", TRUE, "single", "ip1", Absent)
  /\ attempts = <<>>
  /\ lastOutcome = NoOutcome
  /\ calls = NoCalls
  /\ response = NoResponse
  /\ responses = 0
  /\ transcriptId = Absent
  /\ startTime = 0
  /\ lastPoll = "none"
  /\ awaiting = "none"
  /\ parsed = <<>>
  /\ fetchMs = 0

\* nothing is going on anywhere but in the extra variables
Quiet ==
  /\ Idle
  /\ rateMap = [k \in {} |-> 0]
  /\ now = 0
  /\ window = [k \in IPs |-> NoWindow]
  /\ verdict = [k \in IPs |-> FALSE]
  /\ words = <<>>
  /\ fullText = <<>>
  /\ segments = <<>>
  /\ currentSeg = NoSeg
  /\ wordIndex = 0

RateInit ==
  /\ Idle
  /\ pc = "idle"
  /\ rateMap = [k \in {} |-> 0]
  /\ now = 0
  /\ window = [k \in IPs |-> NoWindow]
  /\ verdict = [k \in IPs |-> FALSE]
  /\ words = <<>>
  /\ fullText = <<>>
  /\ segments = <<>>
  /\ currentSeg = NoSeg
  /\ wordIndex = 0
  /\ ExtraIdle

\* isRateLimited(ip)
RateCall(ip) ==
  /\ IF ip \in DOMAIN rateMap /\ ~EntryIsOver(rateMap[ip], now)
     THEN rateMap[ip].count < RATE_LIMIT + MaxOver
     ELSE TRUE
  /\ verdict' = [verdict EXCEPT ![ip] = isRateLimited(rateMap, now, ip)]
  /\ rateMap' = rateMapAfter(rateMap, now, ip)
  /\ window' = [window EXCEPT ![ip] = WindowAfter(@, now)]
  /\ UNCHANGED <<now, pc, handlerVars, wordVars, extraVars>>

\* time passes
Tick ==
  /\ \E t \in TimePoints : t > now /\ now' = t
  /\ UNCHANGED <<rateMap, pc, handlerVars, historyVars, wordVars, extraVars>>

\* the setInterval callback
Cleanup ==
  /\ rateMap' = Cleaned(rateMap, now)
  /\ UNCHANGED <<now, pc, handlerVars, historyVars, wordVars, extraVars>>

RateNext == (\E ip \in IPs : RateCall(ip)) \/ Tick \/ Cleanup

SpecRate == RateInit /\ [][RateNext]_vars

-----------------------------------------------------------------------------
(* The handler with upstreams that may never answer                          *)

\* the places where handler or a strategy awaits an upstream call:
\* stripe.checkout.sessions.retrieve, the caption strategies' fetches,
\* getYouTubeAudioUrl / getVideoTitle / the submit, and the status poll; the
\* timer of sleep(3000) is the one await that always fires
AwaitsUpstream ==
  pc \in {"verify", "captions", "stt", "poll"} /\ awaiting # "sleep"

\* await fetch(url, { method, headers, body }): no signal and no timer is
\* passed, so an upstream that never answers leaves the promise pending; the
\* request stays where it is until the platform ends the invocation
Hang ==
  /\ AwaitsUpstream
  /\ pc' = "hung"
  /\ UNCHANGED <<rateMap, now, handlerVars, historyVars, wordVars, extraVars>>

LiveNext == Next \/ Hang

\* the event loop runs every continuation that is ready
SpecLive == Init /\ [][LiveNext]_vars /\ WF_vars(LiveNext)

-----------------------------------------------------------------------------
(* groupWordsIntoSegments on its own                                         *)

\* words in a stream
MaxWords == 37

\* what can be special about one word of a stream
WordKinds == {"plain", "edge", "pause", "stop", "empty"}

\* the text of word i
WordText(i, at, kind) ==
  IF i # at THEN <<"a">>
  ELSE CASE kind = "stop" -> <<"a", ".">>
         [] kind = "empty" -> <<>>
         [] OTHER -> <<"a">>

\* the silence before word i
GapBefore(i, at, kind) ==
  IF i # at THEN 100
  ELSE CASE kind = "edge" -> PauseMs
         [] kind = "pause" -> PauseMs + 1
         [] OTHER -> 100

\* where the first word of a stream starts: at 0, or at a time whose
\* hundredths of a second end in a half (1.005 s)
FirstStarts == {0, 1005}

\* a stream of n words of 400 ms each, the first one starting at `first`,
\* word `at` being of kind `kind`
RECURSIVE Stream(_, _, _, _)
Stream(n, at, kind, first) ==
  IF n = 0 THEN <<>>
  ELSE LET before == Stream(n - 1, at, kind, first)
           start == IF n = 1 THEN first
                    ELSE before[n - 1].end + GapBefore(n, at, kind)
       IN  Append(before, [start |-> start, end |-> start + 400,
                           text |-> WordText(n, at, kind)])

WordsInit ==
  /\ Idle
  /\ rateMap = [k \in {} |-> 0]
  /\ now = 0
  /\ window = [k \in IPs |-> NoWindow]
  /\ verdict = [k \in IPs |-> FALSE]
  /\ \E n \in 0..MaxWords, at \in 1..MaxWords, kind \in WordKinds,
        first \in FirstStarts :
       /\ at <= n \/ (at = 1 /\ kind = "plain")
       /\ words = Stream(n, at, kind, first)
  /\ fullText \in IF words = <<>> THEN {<<>>, <<Space>>, <<"a">>}
                  ELSE {<<"a">>}
  /\ segments = <<>>
  /\ currentSeg = NoSeg
  /\ wordIndex = 0
  /\ pc = "words"
  /\ ExtraIdle

\* groupWordsIntoSegments up to its loop
GroupBegin ==
  /\ pc = "words"
  /\ IF words = <<>>
     THEN /\ segments' = groupWordsIntoSegments(words, fullText)
          /\ pc' = "grouped"
          /\ UNCHANGED wordIndex
     ELSE /\ segments' = <<>>
          /\ pc' = "loop"
          /\ wordIndex' = 1
  /\ UNCHANGED <<rateMap, now, words, fullText, currentSeg, handlerVars,
                 historyVars, extraVars>>

\* for (const word of words) { ... }: one word
GroupWord ==
  /\ pc = "loop"
  /\ wordIndex <= Len(words)
  /\ LET st == LoopBody([segments |-> segments, currentSeg |-> currentSeg],
                        words[wordIndex])
     IN  /\ segments' = st.segments
         /\ currentSeg' = st.currentSeg
  /\ wordIndex' = wordIndex + 1
  /\ UNCHANGED <<rateMap, now, pc, words, fullText, handlerVars, historyVars,
                 extraVars>>

\* after the loop: push the last segment and return
GroupEnd ==
  /\ pc = "loop"
  /\ wordIndex > Len(words)
  /\ segments' = IF PushesLast(currentSeg)
                 THEN Append(segments, ClosedSeg(currentSeg))
                 ELSE segments
  /\ pc' = "grouped"
  /\ UNCHANGED <<rateMap, now, words, fullText, currentSeg, wordIndex,
                 handlerVars, historyVars, extraVars>>

WordsNext == GroupBegin \/ GroupWord \/ GroupEnd

SpecWords == WordsInit /\ [][WordsNext]_vars

-----------------------------------------------------------------------------
(* Caption-track selection on its own                                        *)

TracksInit ==
  /\ Quiet
  /\ pc = "tracks"
  /\ captionTracks \in TrackLists
  /\ track = NoTrack
  /\ AggIdle
  /\ DbIdle
  /\ LateIdle

\* tryInnertubeCaption picks its track from captionTracks
PickInnertube ==
  /\ pc = "tracks"
  /\ track.innertube = 0
  /\ track' = [track EXCEPT !.innertube = InnertubeTrack(captionTracks)]
  /\ UNCHANGED <<rateMap, now, pc, handlerVars, historyVars, wordVars,
                 captionTracks, aggVars, dbVars, payVars, gen,
                 lateVars>>

\* tryScrapeCaption picks its track from captionTracks
PickScrape ==
  /\ pc = "tracks"
  /\ track.scrape = 0
  /\ track' = [track EXCEPT !.scrape = ScrapeTrack(captionTracks)]
  /\ UNCHANGED <<rateMap, now, pc, handlerVars, historyVars, wordVars,
                 captionTracks, aggVars, dbVars, payVars, gen,
                 lateVars>>

TracksNext == PickInnertube \/ PickScrape

SpecTracks == TracksInit /\ [][TracksNext]_vars

-----------------------------------------------------------------------------
(* The aggregator revision: one request                                      *)

\* the row of users the session cookie of a bulk request leads to: a free or
\* a pro user, with some usage, whose usage_reset_at has passed or not
AggUsers ==
  {User(tier, 0, usage, resetDue) :
     tier \in {"free", "pro"}, usage \in {0, 3}, resetDue \in BOOLEAN}

AggInit ==
  /\ rev = "aggregator"
  /\ ASSEMBLYAI_KEY = FALSE
  /\ stripe = FALSE
  /\ req \in AggRequests
  /\ pc = "start"
  /\ rateMap \in InitialRateMaps
  /\ now = RATE_WINDOW + 1
  /\ attempts = <<>>
  /\ lastOutcome = NoAggOutcome
  /\ calls = NoCalls
  /\ response = NoAggResponse
  /\ responses = 0
  /\ transcriptId = Absent
  /\ startTime = 0
  /\ lastPoll = "none"
  /\ awaiting = "none"
  /\ parsed = <<>>
  /\ fetchMs \in FetchTimes
  /\ window = [k \in IPs |-> NoWindow]
  /\ verdict = [k \in IPs |-> FALSE]
  /\ words = <<>>
  /\ fullText = <<>>
  /\ segments = <<>>
  /\ currentSeg = NoSeg
  /\ wordIndex = 0
  /\ TrackIdle
  /\ users \in AggUsers
  /\ single_credits = NewCredit
  /\ processed_checkouts = {}
  /\ checkout = NoCheckout
  /\ pay = [p \in Webhooks \cup Redirects |-> "done"]
  /\ gen = <<>>
  /\ granted = 0
  /\ LateIdle
  /\ SUPADATA_KEY \in BOOLEAN
  /\ supadataCalls = 0

AggNext ==
  \/ AggReceive
  \/ AggSession
  \/ AggSessionReset
  \/ AggFetch
  \/ AggErrorText
  \/ AggJson
  \/ AggTitleFetch
  \/ AggTitleJson
  \/ AggTimer

SpecAgg == AggInit /\ [][AggNext]_vars

\* one request to the transcript endpoint of any of the three revisions
EndpointInit == Init \/ AggInit

EndpointNext == Next \/ AggNext

SpecEndpoint == EndpointInit /\ [][EndpointNext]_vars

-----------------------------------------------------------------------------
(* One checkout session, its webhook deliveries and redirect visits          *)

\* the monthly usage of a user whose period has ended
PayUsage == 5

\* the user the session and the subscription events are about: free or pro,
\* never a customer, a customer without subscription, or the subscriber;
\* in the current period, or with usage of a period that has ended
PayUsers ==
  {WithStripe(User(tier, c, usage[1], usage[2]), ids[1], ids[2]) :
     tier \in {"free", "pro"}, c \in {0, 1},
     usage \in {<<0, FALSE>>, <<PayUsage, TRUE>>},
     ids \in {<<Null, Null>>, <<"cus_1", Null>>, <<"cus_1", "sub_1">>}}

PayInit ==
  /\ Quiet
  /\ TrackIdle
  /\ AggIdle
  /\ pc = "pay"
  /\ users \in PayUsers
  /\ single_credits = NewCredit
  /\ processed_checkouts = {}
  /\ checkout \in Checkouts
  /\ pay = [p \in Webhooks \cup Redirects |-> "start"]
  /\ gen = <<>>
  /\ granted = 0
  /\ LateIdle

PayNext ==
  \E p \in Webhooks \cup Redirects :
    \/ WebhookBegin(p)
    \/ RedirectBegin(p)
    \/ RedirectReset(p)
    \/ RedirectRetrieve(p)
    \/ Claim(p)
    \/ Grant(p)
    \/ LinkCustomer(p)
    \/ SubscriptionFind(p)
    \/ SubscriptionUpgrade(p)
    \/ SubscriptionDowngrade(p)

SpecPay == PayInit /\ [][PayNext]_vars

-----------------------------------------------------------------------------
(* Two generate requests of one browser, running concurrently                *)

GenInit ==
  /\ Quiet
  /\ TrackIdle
  /\ AggIdle
  /\ pc = "generate"
  /\ users \in {User(t, c, u, r) : t \in {"free", "pro"}, c \in {0, 1},
                                   u \in {0, MONTHLY_LIMIT - 1, MONTHLY_LIMIT},
                                   r \in BOOLEAN}
  /\ single_credits \in {[NewCredit EXCEPT !.used = u] : u \in BOOLEAN}
  /\ processed_checkouts = {}
  /\ checkout = NoCheckout
  /\ pay = [p \in Webhooks \cup Redirects |-> "done"]
  /\ gen = [p \in GenProcs |-> GenStart]
  /\ granted = 0
  /\ LateIdle

GenNext ==
  \E p \in GenProcs :
    \/ GenBegin(p)
    \/ GenCredit(p)
    \/ GenSession(p)
    \/ GenReset(p)
    \/ GenAi(p)
    \/ GenConsume(p)
    \/ GenSave(p)

SpecGen == GenInit /\ [][GenNext]_vars

-----------------------------------------------------------------------------
(* One scheduled post and two execute calls for it                           *)

ExecInit ==
  /\ Quiet
  /\ TrackIdle
  /\ AggIdle
  /\ DbIdle
  /\ pc = "execute"
  /\ post \in {r \in Posts : r.status = "scheduled"}
  /\ exec = [p \in ExecProcs |-> ExecStart]
  /\ published = 0
  /\ QSTASH_SIGNING_KEY \in BOOLEAN
  /\ scheduling \in {FALSE, post.exists}
  /\ SessIdle
  /\ CronIdle

ExecNext ==
  \/ \E p \in ExecProcs :
       \/ ExecBegin(p)
       \/ ExecRead(p)
       \/ ExecRefresh(p)
       \/ ExecRefreshBody(p)
       \/ ExecRefreshSave(p)
       \/ ExecMarkFailed(p)
       \/ ExecPublish(p)
       \/ ExecPublishError(p)
       \/ ExecPublishBody(p)
       \/ ExecRecord(p)
       \/ ExecCatch(p)
  \/ CancelPost
  \/ Disconnect
  \/ Reconnect
  \/ ScheduleConfirm

SpecExec == ExecInit /\ [][ExecNext]_vars

-----------------------------------------------------------------------------
(* One session over its life: lookups, logouts, cleanups, passing days       *)

\* the age in days, at day 0, of the single credit under observation
CreditAges == {0, CREDIT_DAYS - 2, CREDIT_DAYS}

SessInit ==
  /\ Quiet
  /\ TrackIdle
  /\ AggIdle
  /\ ExecIdle
  /\ pc = "sessions"
  /\ users \in {User("pro", 0, 0, FALSE), User("pro", 0, SessUsage, TRUE)}
  /\ single_credits \in {[exists |-> TRUE, used |-> u, created_at |-> 0 - a] :
                           u \in BOOLEAN, a \in CreditAges}
  /\ processed_checkouts = {}
  /\ checkout = NoCheckout
  /\ pay = [p \in Webhooks \cup Redirects |-> "done"]
  /\ gen = <<>>
  /\ granted = 0
  /\ sessions \in [exists : {TRUE}, expires_at : 1 .. (MaxClock - 1)]
  /\ clock = 0
  /\ sessLog = NoSessLog
  /\ sess = NoSess
  /\ CronIdle

SessNext ==
  \/ SessLookup
  \/ SessReset
  \/ SessLogout
  \/ SessCleanup
  \/ SessCleanupCredits
  \/ SessLazy
  \/ SessLazyCredits
  \/ SessTick

SpecSess == SessInit /\ [][SessNext]_vars

-----------------------------------------------------------------------------
(* One linked channel, its uploads and the runs of the cron                  *)

CronInit ==
  /\ Quiet
  /\ TrackIdle
  /\ SUPADATA_KEY \in BOOLEAN
  /\ supadataCalls = 0
  /\ ExecIdle
  /\ SessIdle
  /\ pc = "cron"
  /\ users \in {WithStripe(User("pro", 0, u, r), "cus_1", "sub_1") :
                  u \in {0, MONTHLY_LIMIT - 2}, r \in BOOLEAN}
  /\ single_credits = NewCredit
  /\ processed_checkouts = {}
  /\ checkout = NoCheckout
  /\ pay = [p \in Webhooks \cup Redirects |-> "done"]
  /\ gen = <<>>
  /\ granted = 0
  /\ channel \in [exists : {TRUE}, id : {1}, enabled : {TRUE},
                  urlOk : BOOLEAN, uploaded : {0}, known : {{}}]
  /\ cron = CronIdleRun
  /\ attempted = {}
  /\ channelReq = NoChannelReq

CronNext ==
  \/ Upload
  \/ Downgrade
  \/ ChannelSession
  \/ ChannelReset
  \/ ChannelResolve
  \/ ChannelResolveBody
  \/ LinkChannel
  \/ ChannelGet
  \/ UpdateChannel
  \/ ChannelUpdated
  \/ UnlinkChannel
  \/ CronBegin
  \/ CronResolve
  \/ CronResolveBody
  \/ CronGetUser
  \/ CronRefresh
  \/ CronTranscript
  \/ CronTranscriptBody
  \/ CronAi
  \/ CronSave
  \/ CronConsume
  \/ CronSleep
  \/ CronFinish

SpecCron == CronInit /\ [][CronNext]_vars

-----------------------------------------------------------------------------
(* Properties of the handler and its strategy chain (Spec)                   *)

\* every caption strategy of the revision was attempted and reported failure
CaptionsExhausted ==
  /\ Len(attempts) >= Len(CaptionStrategies(rev))
  /\ \A i \in 1..Len(CaptionStrategies(rev)) : attempts[i].result = "failure"

\* transcribeWithAssemblyAI was called, or is about to be
SttReached ==
  \/ pc \in {"stt", "poll"}
  \/ \E i \in 1..Len(attempts) : attempts[i].strategy = "assemblyai"

\* C1: the strategies of a request are attempted one after the other in the
\* fixed order of the revision; a strategy is attempted only after every
\* earlier one was attempted and reported failure, and once a strategy reports
\* success the handler answers and attempts nothing more.
ChainInOrder ==
  /\ Len(attempts) <= Len(StrategyOrder(rev))
  /\ \A i \in 1..Len(attempts) :
       /\ attempts[i].strategy = StrategyOrder(rev)[i]
       /\ i < Len(attempts) => attempts[i].result = "failure"
  /\ (attempts # <<>> /\ attempts[Len(attempts)].result = "success")
       => pc = "done" /\ response.status = 200

\* C1 witness: all four strategies of the innertube revision were attempted,
\* the first three failed and speech-to-text succeeded
ChainRanToTheEnd ==
  /\ rev = "innertube"
  /\ Len(attempts) = 4
  /\ attempts[4] = [strategy |-> "assemblyai", result |-> "success"]

\* C2 (as claimed): every 200 answer to a GET carries the source tag of the
\* strategy whose outcome it returns and a segment list that is not empty.
SuccessHasSourceAndSegments ==
  (req.method = "GET" /\ response.status = 200) =>
    /\ attempts # <<>>
    /\ response.source =
         IF attempts[Len(attempts)].strategy = "assemblyai" THEN "assemblyai"
         ELSE "youtube_captions"
    /\ response.segments = lastOutcome.segments
    /\ response.totalSegments = Len(response.segments)
    /\ response.totalSegments >= 1

\* C3: when every caption strategy has failed and no AssemblyAI key is
\* configured, the request is over with a 404 whose source is 'none', and no
\* upstream other than the caption strategies' own was called.
NoCaptionsNoKey ==
  (CaptionsExhausted /\ ~ASSEMBLYAI_KEY) =>
    /\ pc = "done"
    /\ response = NoCaptionsResponse
    /\ response.status = 404 /\ response.source = "none"
    /\ Len(attempts) = Len(CaptionStrategies(rev))
    /\ calls["audio"] = 0 /\ calls["assemblyai"] = 0 /\ calls["title"] = 0

\* C3 witness: the three caption strategies failed without a key and the
\* handler answered 404
NoCaptionsAnswered ==
  /\ rev = "innertube" /\ ~ASSEMBLYAI_KEY
  /\ CaptionsExhausted
  /\ response.status = 404
  /\ calls["captions"] >= 3

\* a segment of the Transcript Result shape
SegmentOk(seg) ==
  seg.start >= 0 /\ seg.duration >= 0 /\ Trim(seg.text) # <<>>

\* C4 (as claimed): every segment of every successful outcome has start >= 0,
\* duration >= 0 and a text that is not empty after trimming, whatever the
\* upstream answered.
SegmentsWellFormed ==
  lastOutcome.success =>
    \A i \in 1..Len(lastOutcome.segments) : SegmentOk(lastOutcome.segments[i])

\* C5: no strategy throws - each returns an outcome with a boolean success -
\* and the handler sends exactly one response per request: none before the
\* request is over, one when it is, and a request that is not over can always
\* take its next step.
NoExceptionOneResponse ==
  /\ \A i \in 1..Len(attempts) : attempts[i].result # "threw"
  /\ ~lastOutcome.threw
  /\ lastOutcome.success \in BOOLEAN
  /\ responses <= 1
  /\ (pc = "done") <=> (responses = 1)
  /\ (responses = 1) <=> (response # NoResponse)
  /\ pc # "done" => ENABLED Next

\* C5 witness: an upstream call of speech-to-text raised an exception (or
\* answered a body that is not JSON), the strategy caught it, and the handler
\* answered once
ExceptionWasCaught ==
  /\ lastOutcome.error = "AssemblyAI error"
  /\ ~lastOutcome.success
  /\ responses = 1 /\ response.status = 500

\* a transcript strategy has been called, or is being called
StrategyAttempted ==
  \/ attempts # <<>>
  \/ supadataCalls > 0
  \/ pc \in {"captions", "stt", "poll", "fetch"}

\* the statuses that refuse a request for want of authorization
AuthorizationErrors == {401, 402, 403}

\* C7 (as claimed): in bulk mode the rate limiter is not consulted; a strategy
\* is attempted only for a session id that is present and well-formed and that
\* Stripe, asked once, reports as paid; every other bulk request is answered
\* with an authorization error and nothing is attempted.
BulkNeedsPayment ==
  req.mode = "bulk" =>
    /\ rateMap \in InitialRateMaps
    /\ calls["stripe"] <= 1
    /\ StrategyAttempted =>
         /\ SessionWellFormed(req.sessionId)
         /\ StripeRetrieve(req.sessionId) = "paid"
         /\ calls["stripe"] = 1
    /\ (pc = "done" /\ ~(/\ SessionWellFormed(req.sessionId)
                         /\ StripeRetrieve(req.sessionId) = "paid")) =>
         /\ response.status \in AuthorizationErrors
         /\ ~StrategyAttempted

\* bulk mode of the extractor and innertube revisions: the checkout session
BulkNeedsPaidSession ==
  /\ calls["stripe"] <= 1
  /\ StrategyAttempted =>
       /\ SessionWellFormed(req.sessionId)
       /\ StripeRetrieve(req.sessionId) = "paid"
       /\ stripe /\ calls["stripe"] = 1
  /\ (pc # "start" /\ ~SessionWellFormed(req.sessionId)) =>
       /\ pc = "done" /\ response.status = 403
       /\ ~StrategyAttempted /\ calls = NoCalls
  /\ (pc # "start" /\ SessionWellFormed(req.sessionId) /\ ~stripe) =>
       /\ pc = "done" /\ response.status = 500
       /\ ~StrategyAttempted /\ calls = NoCalls
  /\ (calls["stripe"] = 1 /\ StripeRetrieve(req.sessionId) # "paid") =>
       /\ pc = "done" /\ response.status = 403
       /\ ~StrategyAttempted /\ calls = Called(NoCalls, "stripe", 1)

\* bulk mode of the aggregator revision: the login of a Pro user
BulkNeedsProLogin ==
  /\ calls["stripe"] = 0
  /\ StrategyAttempted => users.tier = "pro" /\ SUPADATA_KEY
  /\ (pc = "done" /\ users.tier # "pro") =>
       /\ response.status = 402
       /\ ~StrategyAttempted
  /\ (pc = "done" /\ response.status \notin {200, 202, 404}) =>
       /\ response.status \in {402, 500}
       /\ ~StrategyAttempted

\* C7 (amended): in bulk mode the rate limiter is not consulted. The
\* extractor and innertube revisions attempt a strategy only for a session id
\* that is well-formed and that Stripe, configured and asked once, reports as
\* paid; a missing or malformed id is answered 403, a well-formed id with
\* Stripe not configured 500 without asking Stripe, a session Stripe reports
\* unpaid or cannot retrieve 403, each with nothing attempted. The aggregator
\* revision ignores the session id and never asks Stripe: it attempts a
\* strategy only for the login of a Pro user and answers every other bulk
\* request 402 with nothing attempted.
BulkNeedsPaymentOrPro ==
  req.mode = "bulk" =>
    /\ rateMap \in InitialRateMaps
    /\ IF rev = "aggregator" THEN BulkNeedsProLogin ELSE BulkNeedsPaidSession

\* C7 witness: a paid bulk request went on to the strategies although its IP
\* had used up an open rate-limit window
BulkPassedTheLimiter ==
  /\ req.mode = "bulk" /\ req.sessionId = "cs_paid"
  /\ attempts # <<>>
  /\ req.ip \in DOMAIN rateMap
  /\ rateMap[req.ip].count = RATE_LIMIT /\ rateMap[req.ip].resetAt >= now

\* C8 (as claimed): a request in single mode never submits a speech-to-text
\* job.
SingleModeNeverStt ==
  req.mode = "single" => calls["assemblyai"] = 0

\* C8 (amended): the mode does not gate the fallback - in every mode the
\* speech-to-text fallback is reached exactly when every caption strategy has
\* failed and an AssemblyAI key is configured.
SttInEveryMode ==
  SttReached <=> (CaptionsExhausted /\ ASSEMBLYAI_KEY)

\* C8 witness: a single-mode request submitted a speech-to-text job
SingleModeSubmittedStt ==
  /\ req.mode = "single"
  /\ CaptionsExhausted
  /\ calls["assemblyai"] >= 1

\* C10: when the polling loop ends because its budget ran out while the job was
\* still processing, the strategy's outcome is a failure holding the job's id,
\* and the handler's 500 answer carries that id with source
\* 'assemblyai_failed'.
TimeoutCarriesJobId ==
  (pc = "done" /\ lastPoll = "processing" /\ ~WithinBudget(now, startTime)
     /\ transcriptId # Absent) =>
    /\ ~lastOutcome.success /\ ~lastOutcome.threw
    /\ lastOutcome.transcriptId = transcriptId
    /\ response.status = 500
    /\ response.transcriptId = transcriptId
    /\ response.source = "assemblyai_failed"

\* C10 witness: polling ran out of time on job1 and the answer names job1
TimedOutWithJobId ==
  /\ pc = "done" /\ lastPoll = "processing"
  /\ now - startTime >= maxWaitMs
  /\ transcriptId = "job1"
  /\ response.transcriptId = "job1"

-----------------------------------------------------------------------------
(* Properties of the rate limiter (SpecRate)                                 *)

\* C6: with N = 10 calls per 60 s window, a key's call is rejected exactly when
\* it is the (N+1)-th or a later call of its window: the first N calls of a
\* window are accepted, and the first call made after the window has elapsed
\* is accepted and opens a new window.
RateLimitPerWindow ==
  \A k \in IPs :
    window[k] # NoWindow =>
      /\ verdict[k] = (window[k].n > RATE_LIMIT)
      /\ k \in DOMAIN rateMap =>
           (now <= rateMap[k].resetAt => rateMap[k].count = window[k].n)

\* C6 witness: a key whose second window was opened by an accepted call has
\* made its (N+1)-th call in that window and was rejected
SecondWindowUsedUp ==
  \E k \in IPs :
    /\ window[k].opened = 2
    /\ window[k].open > RATE_WINDOW
    /\ window[k].n = RATE_LIMIT + 1
    /\ verdict[k]

-----------------------------------------------------------------------------
(* Properties of groupWordsIntoSegments (SpecWords)                          *)

\* no gap between consecutive words exceeds 1.5 s and no word ends in '.',
\* '?' or '!'
Unbroken(ws) ==
  /\ \A i \in 2..Len(ws) : ws[i].start - ws[i - 1].end <= PauseMs
  /\ \A i \in 1..Len(ws) :
       \A ch \in TerminalPunctuation : ~endsWith(ws[i].text, ch)

\* ceil(n / 18)
GroupsOf18(n) == (n + MaxSegmentWords - 1) \div MaxSegmentWords

FirstOfGroup(k) == MaxSegmentWords * (k - 1) + 1

LastOfGroup(k, n) == IF MaxSegmentWords * k < n THEN MaxSegmentWords * k ELSE n

\* the texts of words a..b joined by single spaces
RECURSIVE JoinWords(_, _, _)
JoinWords(ws, a, b) ==
  IF a > b THEN <<>>
  ELSE IF a = b THEN ws[a].text
  ELSE JoinWords(ws, a, b - 1) \o <<Space>> \o ws[b].text

\* the segments are the first `count` 18-word groups of ws, in order
SplitAt18(segs, ws, count) ==
  /\ Len(segs) = count
  /\ \A k \in 1..count :
       LET a == FirstOfGroup(k)
           b == LastOfGroup(k, Len(ws))
       IN  /\ segs[k].start = RoundCs(ws[a].start)
           /\ segs[k].duration = RoundCsBetween(ws[a].start, ws[b].end)
           /\ (\A i \in a..b : Truthy(ws[i].text))
                => segs[k].text = JoinWords(ws, a, b)

\* some word of the last 18-word group has a text
LastGroupHasText(ws) ==
  \E i \in FirstOfGroup(GroupsOf18(Len(ws)))..Len(ws) : Truthy(ws[i].text)

\* C9 (as claimed): an unbroken stream of n words comes back as exactly one
\* segment if n <= 18 and as ceil(n / 18) segments split at the 18-word
\* boundaries otherwise.
UnbrokenStreamInGroupsOf18 ==
  (pc = "grouped" /\ Unbroken(words)) =>
    IF Len(words) <= MaxSegmentWords
    THEN Len(segments) = 1
    ELSE SplitAt18(segments, words, GroupsOf18(Len(words)))

\* C9 (amended): the claim holds for an unbroken stream that is not empty and
\* whose last 18-word group has a word with a text; if that group has none it
\* is dropped, and an empty stream comes back as one segment holding the full
\* text when there is one and as no segment otherwise.
UnbrokenStreamInKeptGroupsOf18 ==
  (pc = "grouped" /\ Unbroken(words)) =>
    IF words = <<>>
    THEN Len(segments) = IF Truthy(fullText) THEN 1 ELSE 0
    ELSE IF LastGroupHasText(words)
         THEN SplitAt18(segments, words, GroupsOf18(Len(words)))
         ELSE SplitAt18(segments, words, GroupsOf18(Len(words)) - 1)

\* C9 witness: an unbroken stream of 37 words came back as three segments,
\* the last one holding the 37th word alone
ThirtySevenWordsInThree ==
  /\ pc = "grouped"
  /\ Len(words) = 2 * MaxSegmentWords + 1
  /\ Unbroken(words) /\ LastGroupHasText(words)
  /\ Len(segments) = 3
  /\ segments[3].text = words[Len(words)].text

-----------------------------------------------------------------------------
(* Properties of the handler under upstreams that may never answer (SpecLive) *)

\* C11 (as claimed): every request is eventually answered by the handler -
\* an upstream that never answers makes the awaiting operation report a
\* failure, so the chain goes on or ends.
EveryRequestAnswered == <>(pc = "done" /\ responses = 1)

-----------------------------------------------------------------------------
(* Properties of caption-track selection (SpecTracks)                        *)

English(t) == t.languageCode = "en"

\* generation method of a track: automatic (kind 'asr') or manual
AutoGenerated(t) == t.kind = "asr"

ManuallyCreated(t) == ~AutoGenerated(t)

\* the tie-break policy: the pick is a manually created English track if the
\* list has one, otherwise an English track if it has one, otherwise the
\* first track
FollowsPolicy(tracks, i) ==
  /\ i \in DOMAIN tracks
  /\ IF \E j \in DOMAIN tracks : English(tracks[j]) /\ ManuallyCreated(tracks[j])
     THEN English(tracks[i]) /\ ManuallyCreated(tracks[i])
     ELSE IF \E j \in DOMAIN tracks : English(tracks[j])
          THEN English(tracks[i])
          ELSE i = 1

\* every track of the list is manual (no kind) or auto-generated (kind 'asr')
ManualOrAsrOnly(tracks) ==
  \A j \in DOMAIN tracks : tracks[j].kind \in {Absent, "asr"}

\* C12: the selected track is a manually created English track whenever the
\* list has one, otherwise an English track if there is one, otherwise the
\* first track, for tryInnertubeCaption and for tryScrapeCaption alike.
SelectionFollowsPolicy ==
  /\ track.innertube # 0 => FollowsPolicy(captionTracks, track.innertube)
  /\ track.scrape # 0 => FollowsPolicy(captionTracks, track.scrape)

\* what holds of the selection: tryInnertubeCaption follows the policy on
\* every list, tryScrapeCaption on every list of manual and auto-generated
\* tracks
PolicyWithoutOtherKinds ==
  /\ track.innertube # 0 => FollowsPolicy(captionTracks, track.innertube)
  /\ (track.scrape # 0 /\ ManualOrAsrOnly(captionTracks))
       => FollowsPolicy(captionTracks, track.scrape)

\* from an auto-generated English track followed by a manual English one,
\* both strategies selected the manual track
ManualPreferredOverAsr ==
  /\ captionTracks = <<[languageCode |-> "en", kind |-> "asr"],
                       [languageCode |-> "en", kind |-> Absent]>>
  /\ track = [innertube |-> 2, scrape |-> 2]

\* C20 (as claimed): on every track list tryScrapeCaption and
\* tryInnertubeCaption select the same track.
SameTrackSelected ==
  (track.innertube # 0 /\ track.scrape # 0) => track.innertube = track.scrape

-----------------------------------------------------------------------------
(* Properties of the aggregator revision (SpecAgg)                           *)

\* a failure that is neither 'no captions' nor 'async processing'
OtherFailure(o) == ~o.success /\ ~o.noCaptions /\ ~o.async

\* fetchTranscript has sent its request to the aggregator and has not returned
CallUnderWay ==
  pc = "fetch"
    /\ awaiting \in {"error_text", "json", "title_fetch", "title_json"}

\* C13: the aggregator is called at most twice per request; a second call is
\* made exactly when the first outcome is a failure that is neither 'no
\* captions' nor 'async processing', and then once; the response is built
\* from the last outcome obtained.
AggregatorRetriedOnce ==
  /\ supadataCalls <= 2
  /\ Len(attempts) <= supadataCalls /\ supadataCalls <= Len(attempts) + 1
  /\ supadataCalls = Len(attempts) + 1 => CallUnderWay
  /\ supadataCalls = 2 => (attempts # <<>> /\ OtherFailure(attempts[1]))
  /\ (attempts # <<>> /\ OtherFailure(attempts[1])) =>
       (pc = "fetch" <=> Len(attempts) = 1)
  /\ (attempts # <<>> /\ ~OtherFailure(attempts[1])) =>
       (Len(attempts) = 1 /\ pc = "done")
  /\ (pc = "done" /\ attempts # <<>>) =>
       LET last == attempts[Len(attempts)]
       IN  /\ responses = 1
           /\ response.status =
                IF last.async THEN 202 ELSE IF last.success THEN 200 ELSE 404
           /\ response.async = last.async
           /\ response.segments = last.segments
           /\ response.no_captions = last.noCaptions
           /\ ~last.success /\ ~last.async => response.error = last.error

\* C13 witness: the first call failed with a service error, the second call
\* succeeded, and the 200 answer holds the second outcome's segments
RetrySucceeded ==
  /\ Len(attempts) = 2
  /\ attempts[1].error = "Transcript service error (status)"
  /\ attempts[2].success
  /\ response.status = 200 /\ response.source = "supadata"
  /\ response.totalSegments = 1
  /\ req.platform = "youtube" /\ calls["title"] = 1
  /\ fetchMs = 1000
  /\ now = RATE_WINDOW + 1 + retryDelayMs + 3 * fetchMs

-----------------------------------------------------------------------------
(* Properties of the payment handlers (SpecPay)                              *)

\* C14: a checkout session grants its benefit at most once, however its
\* webhook deliveries and redirect visits interleave or repeat: at most one
\* setProStatus / incrementCredits call is made for it, and only for a paid
\* session after its id was recorded.
PaidSessionGrantsOnce ==
  /\ granted <= 1
  /\ Cardinality({p \in DOMAIN pay : pay[p] = "grant"}) + granted <= 1
  /\ (granted = 1 \/ \E p \in DOMAIN pay : pay[p] = "grant") =>
       checkout.paid /\ checkout.id \in processed_checkouts

\* C14 witness: both deliveries and both visits of a paid session are over,
\* its id is recorded and the credit was granted once
AllFourOverOneGranted ==
  /\ \A p \in DOMAIN pay : pay[p] = "done"
  /\ checkout.mode = "payment" /\ checkout.paid
  /\ checkout.id \in processed_checkouts
  /\ granted = 1
  /\ users.credits \in {1, 2}

-----------------------------------------------------------------------------
(* Properties of the generate handler (SpecGen)                              *)

\* the requests that returned generated content on the strength of the token
PaidByToken ==
  {p \in GenProcs : gen[p].pc = "done" /\ gen[p].status = 200
                      /\ gen[p].content /\ gen[p].creditToken}

\* C15: over any interleaving of generate requests carrying the same
\* tg_credit cookie, at most one returns generated content (HTTP 200) on the
\* strength of the token.
TokenPaysOnce == Cardinality(PaidByToken) <= 1

\* C16: the monthly_usage of a Pro user never exceeds 200, also when several
\* of their generate requests run concurrently.
MonthlyUsageWithinLimit ==
  users.tier = "pro" => users.monthly_usage <= MONTHLY_LIMIT

\* the requests whose AI call failed, run with no other request under way
FailedAlone ==
  {p \in GenProcs :
     /\ gen[p].pc = "done" /\ gen[p].status \in {500, 502}
     /\ \A q \in GenProcs \ {p} : gen[q].pc = "start"}

\* the request's own session lookup found the usage period over and reset it
PeriodRolledOver(p) ==
  /\ gen[p].before.users.resetDue
  /\ gen[p].hasUser
  /\ ~users.resetDue
  /\ users.monthly_usage = 0

\* C17 as stated: when the AI call of a generate request fails, the request
\* ends with an error status and credits, monthly_usage and the token's used
\* flag are exactly what they were before the request.
FailureLeavesAllAsBefore ==
  \A p \in FailedAlone :
    /\ ~gen[p].content
    /\ users.credits = gen[p].before.users.credits
    /\ users.monthly_usage = gen[p].before.users.monthly_usage
    /\ single_credits = gen[p].before.single_credits

\* C17 (amended): when the AI call of a generate request fails, the request
\* ends with an error status, credits and the token's used flag are exactly
\* what they were before the request, and monthly_usage is what it was unless
\* the usage period had ended, in which case the session lookup reset it to 0.
FailureConsumesNothing ==
  \A p \in FailedAlone :
    /\ ~gen[p].content
    /\ users.credits = gen[p].before.users.credits
    /\ \/ users.monthly_usage = gen[p].before.users.monthly_usage
       \/ PeriodRolledOver(p)
    /\ single_credits = gen[p].before.single_credits

\* C17 witness: the AI call failed for a Pro user one short of the limit, or
\* for a request admitted on an unused token
FailedWithCreditAtStake ==
  \/ /\ "gen1" \in FailedAlone
     /\ gen["gen1"].hasUser /\ gen["gen1"].user.tier = "pro"
     /\ gen["gen1"].status = 502
     /\ users.monthly_usage = MONTHLY_LIMIT - 1
  \/ /\ "gen1" \in FailedAlone
     /\ gen["gen1"].creditToken
     /\ ~single_credits.used

-----------------------------------------------------------------------------
(* Properties of the loop of groupWordsIntoSegments (SpecWords)              *)

\* the loop is about to place a word that has a predecessor
PlacesNextWord == pc = "loop" /\ 1 < wordIndex /\ wordIndex <= Len(words)

\* the reasons to start a segment at the word about to be placed, read off
\* the running segment and the two words
HoldsFullCount == currentSeg.wordCount = 18

AfterLongPause == words[wordIndex].start - words[wordIndex - 1].end > 1500

AfterTerminalPunctuation ==
  /\ currentSeg.text # <<>>
  /\ currentSeg.text[Len(currentSeg.text)] \in {".", "?", "!"}

\* C18: groupWordsIntoSegments starts a new segment at a word exactly when
\* the running segment already holds 18 words, or the word starts more than
\* 1500 ms after the previous word's end, or the running segment's text ends
\* in '.', '?' or '!'; in every other case the word joins the running segment
\* and no segment is closed.
NewSegmentExactlyWhenDue ==
  [][PlacesNextWord =>
       IF HoldsFullCount \/ AfterLongPause \/ AfterTerminalPunctuation
       THEN /\ currentSeg'.wordCount = 1
            /\ currentSeg'.start = words[wordIndex].start
            /\ Len(segments') = Len(segments) + 1
            /\ segments'[Len(segments')].text = currentSeg.text
       ELSE /\ currentSeg'.wordCount = currentSeg.wordCount + 1
            /\ currentSeg'.start = currentSeg.start
            /\ segments' = segments]_vars

\* C18 witness: the third word came more than 1.5 s after the second and
\* opened the second segment, the first two words being the first
SplitAtPause ==
  /\ pc = "loop"
  /\ wordIndex = 4
  /\ words[3].start - words[2].end > 1500
  /\ currentSeg.wordCount = 1
  /\ Len(segments) = 1
  /\ segments[1].text = <<"a", Space, "a">>

-----------------------------------------------------------------------------
(* Properties of the polling loop of transcribeWithAssemblyAI (Spec)         *)

\* a status request is being issued for the job (the sleep is over and the
\* fetch is called at time now), or the strategy has returned after one (at
\* time now)
StatusRequested ==
  \/ pc = "poll" /\ awaiting = "fetch"
  \/ pc = "done" /\ lastPoll # "none"

\* C19: counted from the start of polling, no status request is issued and
\* the strategy does not return later than 110 s.
PollingWithinBudget == StatusRequested => now - startTime <= 110000

-----------------------------------------------------------------------------
(* Properties of the execute action (SpecExec)                               *)

\* C21: a scheduled post is published to its social platform at most once,
\* however execute calls for the same post id repeat or overlap.
PublishedAtMostOnce == published <= 1

\* C22: an execute request whose upstash-signature header is missing,
\* malformed or not a valid signature produced by QStash never causes a post
\* to be published and never changes a post's status.
UnsignedNeverActs ==
  \A p \in DOMAIN exec : exec[p].sig # "qstash" => ~exec[p].acted

-----------------------------------------------------------------------------
(* Properties of the sessions (SpecSess)                                     *)

\* C23: after a logout request carrying the token has completed, or once the
\* expiry has passed, no later request carrying the token is treated as
\* signed in, and cleanup never removes a session that has not expired.
SessionEndsAtLogoutOrExpiry ==
  /\ ~sessLog.afterLogout
  /\ ~sessLog.afterExpiry
  /\ ~sessLog.removedLive

-----------------------------------------------------------------------------
(* Properties of the channel cron (SpecCron)                                 *)

\* C24: a newly uploaded video that a run did not attempt is not added to
\* known_video_ids by that run: what the run's markChannelChecked adds to the
\* list has been attempted.
KnownOnlyIfAttempted ==
  [][(cron.pc = "finish" /\ cron'.pc = "idle")
       => (channel'.known \ channel.known) \subseteq attempted]_vars

-----------------------------------------------------------------------------
(* The credits of a user under concurrent generate requests (SpecGen)        *)

\* C25: users.credits is never negative, concurrent generate requests of
\* the same free-tier user included.
CreditsNeverNegative == users.credits >= 0

=============================================================================
